---------------------------- MODULE Spec2Model ----------------------------
(***************************************************************************)
(* A model of the GR assistant of casimirbot: the pipeline orchestrator    *)
(* (tools/gr_assistant/orchestrator.py), the MetricSpec validation         *)
(* (schemas.py), the metric parser, the artifact serialization and the     *)
(* tiered simplification (cas.py), the check engine (checks.py) and the    *)
(* unit check (units.py).                                                  *)
(*                                                                         *)
(* Python values are modelled as follows.  A dict with string keys is a    *)
(* TLA+ record (a function on its keys); the empty dict is the function    *)
(* with the empty domain.  A list is a sequence.  An insertion-ordered     *)
(* dict whose key order is observed (RunDAG.artifacts) is a sequence of    *)
(* [key, value] entries with distinct keys.  JSON scalars that Python      *)
(* tests for truth are kept as their JSON text ("true", "false", "null").  *)
(* Python list indices are 0-based and are kept so in the arguments of     *)
(* the operations; the sequences themselves are 1-based.                   *)
(***************************************************************************)
EXTENDS Integers, Sequences, FiniteSets, TLC

(***************************************************************************)
(* Bounds of the model.                                                    *)
(***************************************************************************)
MaxSteps == 2      \* longest plan handed to run_plan / rerun_from
MaxReruns == 1     \* rerun_from calls made on one DAG
MaxDim == 2        \* largest number of coordinates / matrix rows and columns
FlatDim == 4       \* largest dimension of the constant diagonal metrics
RiemannDim == 2    \* largest dimension of the Riemann tensors handed to the sweeps
MaxSamples == 2    \* longest sample_points list handed to check_vacuum

VARIABLES
    \* ---- orchestrator.py -------------------------------------------------
    steps,      \* the plan: List[PlanStep] handed to run_plan / rerun_from
    nodes,      \* RunDAG.nodes
    artifacts,  \* RunDAG.artifacts (insertion-ordered dict)
    checks,     \* RunDAG.checks
    pc,         \* position of the orchestrator's caller / of _execute_steps
    idx,        \* 0-based index in steps of the step the loop is at
    response,   \* local `response` of _execute_steps after the try/except
    status,     \* local `status` of _execute_steps after the try/except
    server,     \* the tool server: endpoint -> what it answers ("unset" until asked)
    calls,      \* endpoints posted to during the current _execute_steps
    op,         \* the entry point of the current execution and its start_index
    old,        \* the DAG as it was when the current execution was entered
    reruns,     \* number of rerun_from calls made on the DAG
    report,     \* the last build_report result ("none" before)
    callers,    \* the callers sharing one RunDAG, each with its position (none otherwise)
    \* ---- schemas.py / cas.py / checks.py ---------------------------------
    coords,     \* MetricSpec.coords of the request
    g_dd,       \* MetricSpec.g_dd of the request
    mpc,        \* "request" | "valid" | "rejected" | "returned" | "raised"
    called,     \* name of the engine function called last ("none" before)
    result,     \* what that call returned, or the exception it raised
    \* ---- functions called on their own ------------------------------------
    args        \* the arguments of the function under call (NoArgs otherwise)

ovars == <<steps, nodes, artifacts, checks, pc, idx, response, status, server,
           calls, op, old, reruns, report, callers>>
mvars == <<coords, g_dd, mpc, called, result>>
vars == <<ovars, callers, mvars, args>>

(***************************************************************************)
(* Python dict helpers                                                     *)
(***************************************************************************)
EmptyDict == [key \in {} |-> TRUE]

\* no function is called on its own
NoArgs == EmptyDict

\* bool(d) of a dict: non-empty
DictTruthy(d) == DOMAIN d # {}

\* `key in d`
HasKey(d, key) == key \in DOMAIN d

\* list(d.keys()) of an insertion-ordered dict
OrderedKeys(d) == [i \in 1..Len(d) |-> d[i].key]

\* d[key] = value on an insertion-ordered dict: an existing key keeps its
\* position and gets the new value, a new key is appended
OrderedSet(d, key, value) ==
    IF \E i \in 1..Len(d) : d[i].key = key
    THEN [i \in 1..Len(d) |-> IF d[i].key = key
                              THEN [key |-> key, value |-> value] ELSE d[i]]
    ELSE Append(d, [key |-> key, value |-> value])

\* bool(v) of a JSON scalar kept as text
Truthy(v) == v \notin {"false", "null", "0", ""}

(***************************************************************************)
(* orchestrator.py: plans                                                  *)
(***************************************************************************)
NoKey == "None"    \* output_key = None

PlanStep(name, endpoint, payload, kind, output_key) ==
    [name |-> name, endpoint |-> endpoint, payload |-> payload,
     kind |-> kind, output_key |-> output_key]

\* The steps plans are built from: the four kinds of run_metric_pipeline, two
\* steps writing the same output key, a scalar step without an output key,
\* and a step whose kind is none of the four.
StepCatalog ==
    { PlanStep("metric_validate", "/physics/metric-validate", "metric", "checks", NoKey),
      PlanStep("riemann", "/physics/riemann", "metric", "artifact", "curvature"),
      PlanStep("invariants", "/physics/invariants", "metric", "invariants", "curvature"),
      PlanStep("ricci_scalar", "/physics/ricci-scalar", "metric", "scalar", NoKey),
      PlanStep("health", "/health", "none", "probe", "health") }

Endpoints == { s.endpoint : s \in StepCatalog }

Plans == UNION { [1..n -> StepCatalog] : n \in 1..MaxSteps }

\* the 0-based index at which the Python slice seq[start:] begins
SliceStart(seq, start) ==
    LET n == Len(seq)
    IN  IF start < 0 THEN (IF n + start < 0 THEN 0 ELSE n + start)
        ELSE IF start > n THEN n ELSE start

\* seq[start:]
SliceFrom(seq, start) ==
    IF SliceStart(seq, start) >= Len(seq) THEN <<>>
    ELSE SubSeq(seq, SliceStart(seq, start) + 1, Len(seq))

\* seq[:stop] for 0 <= stop <= len(seq)
SliceTo(seq, stop) == SubSeq(seq, 1, stop)

(***************************************************************************)
(* The tool server, seen from ToolClient.post: the connection fails, or an *)
(* HTTP response with a status code and a JSON body comes back.  The       *)
(* bodies are those of server.py's response models: a CheckResultsResponse, *)
(* a single CheckResult (any other single object is handled alike), and    *)
(* the empty object.  A server answers one endpoint the same way each time *)
(* it is asked (the formulas are pure functions of the payload).           *)
(***************************************************************************)
CheckPass == [check_name |-> "metric_symmetry", passed |-> "true"]
CheckFail == [check_name |-> "vacuum", passed |-> "false", residual |-> "G_ab != 0"]
CheckNull == [check_name |-> "custom", passed |-> "null"]

Unset == [kind |-> "unset"]

Answers ==
    { [kind |-> "connect_error"],
      [kind |-> "http", code |-> 500, body |-> [detail |-> "Internal Server Error"]],
      [kind |-> "http", code |-> 200, body |-> [checks |-> <<CheckPass, CheckFail, CheckNull>>]],
      [kind |-> "http", code |-> 200, body |-> CheckPass],
      [kind |-> "http", code |-> 200, body |-> EmptyDict] }

(***************************************************************************)
(* orchestrator.py: ToolClient and Orchestrator._execute_steps             *)
(***************************************************************************)
\* A slip: httpx.Client(timeout=None), a client that waits without end
ClientTimeoutNone == [given |-> FALSE]

\* ToolClient.__init__: httpx.Client(timeout=60.0)
ClientTimeout == [given |-> TRUE, seconds |-> 60]

\* what the client makes of a capability that has not answered in time
TimedOut == [kind |-> "timeout"]

\* ToolClient.post: client.post raises when the connection fails or the
\* time is out, raise_for_status raises on a 4xx/5xx status, else the JSON
\* body is returned
ClientPost(answer) ==
    IF answer.kind = "connect_error"
    THEN [raised |-> TRUE, exc |-> "All connection attempts failed"]
    ELSE IF answer.kind = "timeout"
    THEN [raised |-> TRUE, exc |-> "timed out"]
    ELSE IF answer.code >= 400
    THEN [raised |-> TRUE, exc |-> "Server error for url"]
    ELSE [raised |-> FALSE, value |-> answer.body]

\* A slip: the call is made outside the try block, so its exception leaves
\* _execute_steps
TryPostUnguarded(answer) ==
    LET r == ClientPost(answer)
    IN  IF r.raised
        THEN [response |-> EmptyDict, status |-> "none", escaped |-> TRUE]
        ELSE [response |-> r.value, status |-> "ok", escaped |-> FALSE]

\* the try/except of _execute_steps: the locals `response` and `status` after
\* it, and whether an exception left the function
TryPost(answer) ==
    LET r == ClientPost(answer)
    IN  IF r.raised
        THEN [response |-> [error |-> r.exc], status |-> "fail", escaped |-> FALSE]
        ELSE [response |-> r.value, status |-> "ok", escaped |-> FALSE]

\* A slip: a single result is not wrapped into a list
ClassifyNoWrap(kind, resp) ==
    IF kind \in {"artifact", "scalar", "invariants"}
    THEN [outputs |-> resp, checks |-> <<>>]
    ELSE IF kind = "checks" /\ HasKey(resp, "checks")
    THEN [outputs |-> EmptyDict, checks |-> resp.checks]
    ELSE [outputs |-> EmptyDict, checks |-> <<>>]

\* the classification of the response by the step's kind: the locals
\* `outputs` and `checks`
Classify(kind, resp) ==
    IF kind = "artifact" THEN [outputs |-> resp, checks |-> <<>>]
    ELSE IF kind = "scalar" THEN [outputs |-> resp, checks |-> <<>>]
    ELSE IF kind = "invariants" THEN [outputs |-> resp, checks |-> <<>>]
    ELSE IF kind = "checks"
    THEN IF HasKey(resp, "checks")
         THEN [outputs |-> EmptyDict, checks |-> resp.checks]
         ELSE [outputs |-> EmptyDict, checks |-> <<resp>>]
    ELSE [outputs |-> EmptyDict, checks |-> <<>>]

\* RunNode(name=step.name, ..., status=status, outputs=outputs, checks=checks)
RunNode(step, st, outputs, chks) ==
    [name |-> step.name, endpoint |-> step.endpoint, payload |-> step.payload,
     output_key |-> step.output_key, kind |-> step.kind, status |-> st,
     outputs |-> outputs, checks |-> chks]

(***************************************************************************)
(* orchestrator.py: RunDAG                                                 *)
(***************************************************************************)
EmptyDAG == [nodes |-> <<>>, artifacts |-> <<>>, checks |-> <<>>]

\* A slip: the node is inserted at the head of the list
DagAddNodeFront(dag, node) ==
    [nodes |-> <<node>> \o dag.nodes,
     artifacts |->
        IF node.output_key # NoKey /\ node.output_key # "" /\ DictTruthy(node.outputs)
        THEN OrderedSet(dag.artifacts, node.output_key, node.outputs)
        ELSE dag.artifacts,
     checks |-> IF Len(node.checks) > 0 THEN dag.checks \o node.checks ELSE dag.checks]

\* A slip: the artifact is stored only when the key is new
DagAddNodeKeepFirst(dag, node) ==
    [nodes |-> Append(dag.nodes, node),
     artifacts |->
        IF node.output_key # NoKey /\ node.output_key # "" /\ DictTruthy(node.outputs)
           /\ ~ \E i \in 1..Len(dag.artifacts) : dag.artifacts[i].key = node.output_key
        THEN OrderedSet(dag.artifacts, node.output_key, node.outputs)
        ELSE dag.artifacts,
     checks |-> IF Len(node.checks) > 0 THEN dag.checks \o node.checks ELSE dag.checks]

\* RunDAG.add_node
DagAddNode(dag, node) ==
    [nodes |-> Append(dag.nodes, node),
     artifacts |->
        IF node.output_key # NoKey /\ node.output_key # "" /\ DictTruthy(node.outputs)
        THEN OrderedSet(dag.artifacts, node.output_key, node.outputs)
        ELSE dag.artifacts,
     checks |-> IF Len(node.checks) > 0 THEN dag.checks \o node.checks ELSE dag.checks]

\* A slip: only the node list is truncated
DagRerunFromKeep(dag, index) ==
    IF index < 0 \/ index >= Len(dag.nodes) THEN dag
    ELSE [nodes |-> SliceTo(dag.nodes, index), artifacts |-> dag.artifacts,
          checks |-> dag.checks]

\* RunDAG.rerun_from
DagRerunFrom(dag, index) ==
    IF index < 0 \/ index >= Len(dag.nodes) THEN dag
    ELSE [nodes |-> SliceTo(dag.nodes, index), artifacts |-> <<>>, checks |-> <<>>]

DAG == [nodes |-> nodes, artifacts |-> artifacts, checks |-> checks]

(***************************************************************************)
(* orchestrator.py: build_report                                           *)
(***************************************************************************)
NoReport == [built |-> FALSE]

Metrics == { [coords |-> <<"t", "x">>, signature |-> "+-"], [g_dd |-> <<>>] }

\* dict.get(key, default)
DictGet(d, key, default) == IF HasKey(d, key) THEN d[key] ELSE default

SelectFailed(chks) == SelectSeq(chks, LAMBDA c : ~ Truthy(DictGet(c, "passed", "false")))

\* A slip: a check without a 'passed' field is not counted as failed
BuildReportLenient(metric, dag) ==
    LET failed == SelectSeq(dag.checks, LAMBDA c : ~ Truthy(DictGet(c, "passed", "true")))
    IN  [built |-> TRUE,
         assumptions |-> [coords |-> DictGet(metric, "coords", "None"),
                          signature |-> DictGet(metric, "signature", "-+++"),
                          units_internal |-> "geometrized"],
         artifacts |-> OrderedKeys(dag.artifacts),
         checks |-> dag.checks,
         failed_checks |-> failed,
         passed |-> (Len(failed) = 0)]

\* build_report
BuildReportOf(metric, dag) ==
    LET failed == SelectFailed(dag.checks)
    IN  [built |-> TRUE,
         assumptions |-> [coords |-> DictGet(metric, "coords", "None"),
                          signature |-> DictGet(metric, "signature", "-+++"),
                          units_internal |-> "geometrized"],
         artifacts |-> OrderedKeys(dag.artifacts),
         checks |-> dag.checks,
         failed_checks |-> failed,
         passed |-> (Len(failed) = 0)]

(***************************************************************************)
(* orchestrator.py: the state machine of one DAG and its single owner      *)
(***************************************************************************)
OInit ==
    /\ steps = <<>>
    /\ nodes = <<>>
    /\ artifacts = <<>>
    /\ checks = <<>>
    /\ pc = "idle"
    /\ idx = 0
    /\ response = EmptyDict
    /\ status = "none"
    /\ server = [e \in Endpoints |-> Unset]
    /\ calls = <<>>
    /\ op = [name |-> "none", start |-> 0]
    /\ old = EmptyDAG
    /\ reruns = 0
    /\ report = NoReport
    /\ callers = <<>>

\* Orchestrator.run_plan(steps), up to the first iteration of the loop
RunPlan ==
    /\ pc = "idle"
    /\ \E plan \in Plans :
        /\ steps' = plan
        /\ idx' = SliceStart(plan, 0)
    /\ nodes' = EmptyDAG.nodes
    /\ artifacts' = EmptyDAG.artifacts
    /\ checks' = EmptyDAG.checks
    /\ old' = EmptyDAG
    /\ op' = [name |-> "run_plan", start |-> 0]
    /\ calls' = <<>>
    /\ pc' = "loop"
    /\ UNCHANGED <<response, status, server, reruns, report, callers, mvars, args>>

\* Orchestrator.rerun_from(dag, steps, start_index), up to the first
\* iteration of the loop: dag.rerun_from(start_index), then _execute_steps
RerunFrom ==
    /\ pc = "done"
    /\ reruns < MaxReruns
    /\ \E k \in -1 .. Len(steps) :
        LET d == DagRerunFrom(DAG, k)
        IN  /\ nodes' = d.nodes
            /\ artifacts' = d.artifacts
            /\ checks' = d.checks
            /\ idx' = SliceStart(steps, k)
            /\ op' = [name |-> "rerun_from", start |-> k]
    /\ old' = DAG
    /\ reruns' = reruns + 1
    /\ calls' = <<>>
    /\ pc' = "loop"
    /\ UNCHANGED <<steps, response, status, server, report, callers, mvars, args>>

\* one iteration of _execute_steps, first half: the blocking request and the
\* try/except around it
Post ==
    /\ pc = "loop"
    /\ idx < Len(steps)
    /\ LET step == steps[idx + 1]
       IN  \E answer \in Answers :
            /\ server[step.endpoint] \in {Unset, answer}
            /\ server' = [server EXCEPT ![step.endpoint] = answer]
            /\ response' = TryPost(answer).response
            /\ status' = TryPost(answer).status
            /\ pc' = IF TryPost(answer).escaped THEN "raised" ELSE "posted"
            /\ calls' = Append(calls, step.endpoint)
    /\ UNCHANGED <<steps, nodes, artifacts, checks, idx, op, old, reruns, report, callers, mvars, args>>

\* A slip: the response is kept as outputs whatever the kind of the step
AddNodeUnclassified ==
    /\ pc = "posted"
    /\ LET step == steps[idx + 1]
           c == Classify(step.kind, response)
           d == DagAddNode(DAG, RunNode(step, status, response, c.checks))
       IN  /\ nodes' = d.nodes
           /\ artifacts' = d.artifacts
           /\ checks' = d.checks
    /\ idx' = idx + 1
    /\ pc' = "loop"
    /\ UNCHANGED <<steps, response, status, server, calls, op, old, reruns, report, callers, mvars, args>>

\* one iteration of _execute_steps, second half: classify the response and
\* dag.add_node(RunNode(...))
AddNode ==
    /\ pc = "posted"
    /\ LET step == steps[idx + 1]
           c == Classify(step.kind, response)
           d == DagAddNode(DAG, RunNode(step, status, c.outputs, c.checks))
       IN  /\ nodes' = d.nodes
           /\ artifacts' = d.artifacts
           /\ checks' = d.checks
    /\ idx' = idx + 1
    /\ pc' = "loop"
    /\ UNCHANGED <<steps, response, status, server, calls, op, old, reruns, report, callers, mvars, args>>

\* the loop of _execute_steps is exhausted: return dag
Return ==
    /\ pc = "loop"
    /\ idx >= Len(steps)
    /\ pc' = "done"
    /\ UNCHANGED <<steps, nodes, artifacts, checks, idx, response, status, server,
                   calls, op, old, reruns, report, callers, mvars, args>>

\* build_report(metric, dag) on the returned DAG, as main does last
BuildReport ==
    /\ pc = "done"
    /\ \E metric \in Metrics : report' = BuildReportOf(metric, DAG)
    /\ pc' = "reported"
    /\ UNCHANGED <<steps, nodes, artifacts, checks, idx, response, status, server,
                   calls, op, old, reruns, callers, mvars, args>>

(***************************************************************************)
(* schemas.py: MetricSpec                                                  *)
(*                                                                         *)
(* A request carries coords, a list of names, and g_dd, a list of rows of  *)
(* cells.  A cell is the text of an expression: a constant, or text the    *)
(* symbolic engine cannot parse.  The metrics of the model therefore have  *)
(* constant coefficients.                                                  *)
(***************************************************************************)
CoordNames == {"t", "x"}
Cells == {"0", "1", "("}

ListsOf(S) == UNION { [1..n -> S] : n \in 0..MaxDim }

\* A slip: the rows are not measured
ValidateShapeNoRows(c, g) ==
    IF Len(c) = 0 THEN "coords must be non-empty"
    ELSE IF Len(g) # Len(c) THEN "g_dd must match coords length"
    ELSE "ok"

\* MetricSpec.validate_shape: the ValueError it raises, or "ok"
ValidateShape(c, g) ==
    IF Len(c) = 0 THEN "coords must be non-empty"
    ELSE IF Len(g) # Len(c) THEN "g_dd must match coords length"
    ELSE IF \E r \in 1..Len(g) : Len(g[r]) # Len(c) THEN "g_dd must be a square matrix"
    ELSE "ok"

(***************************************************************************)
(* cas.py: the metric parser and the curvature tensors                     *)
(***************************************************************************)
Raised(exc) == [raised |-> TRUE, exc |-> exc]
Returned(value) == [raised |-> FALSE, value |-> value]

\* sp.sympify of a cell succeeds
Parsable(cell) == cell \in {"0", "1", "-1", "4"}

\* sp.sympify of a parsable cell
Sympify(cell) ==
    IF cell = "1" THEN 1 ELSE IF cell = "-1" THEN -1 ELSE IF cell = "4" THEN 4 ELSE 0

\* sp.symbols(name, real=True)
Symbol(name) == [name |-> name, real |-> TRUE]

\* parse_metric: coord_map is a dict, so a repeated name is one entry; every
\* cell is sympified, an unparsable one raising SympifyError; sp.Matrix
\* refuses rows of unequal length
ParseMetric(c, g) ==
    IF \E r \in 1..Len(g) : \E k \in 1..Len(g[r]) : ~ Parsable(g[r][k])
    THEN Raised("SympifyError")
    ELSE IF \E r \in 1..Len(g) : Len(g[r]) # Len(g[1])
    THEN Raised("ValueError")
    ELSE Returned([coords |-> [i \in 1..Len(c) |-> Symbol(c[i])],
                   coord_map |-> [n \in {c[i] : i \in 1..Len(c)} |-> Symbol(n)],
                   g_dd |-> [r \in 1..Len(g) |-> [k \in 1..Len(g[r]) |-> Sympify(g[r][k])]]])

\* the matrix m without its first row and its column j
Minor(m, j) ==
    [r \in 1..(Len(m) - 1) |->
        [k \in 1..(Len(m) - 1) |-> IF k < j THEN m[r + 1][k] ELSE m[r + 1][k + 1]]]

\* the determinant, expanded along the first row
RECURSIVE Det(_)
Det(m) ==
    IF Len(m) = 0 THEN 1
    ELSE LET Term(j) == (IF j % 2 = 1 THEN 1 ELSE -1) * m[1][j] * Det(Minor(m, j))
             Sum[j \in 0..Len(m)] == IF j = 0 THEN 0 ELSE Sum[j - 1] + Term(j)
         IN  Sum[Len(m)]

\* A slip: a matrix of negative determinant is taken for a singular one
InvertiblePositive(m) == Det(m) > 0

\* Matrix.inv() raises NonInvertibleMatrixError on a singular matrix
Invertible(m) == Det(m) # 0

\* build_metric_tensor followed by <Tensor>.from_metric: the metric is parsed
\* and inverted; with constant coefficients every derivative of the metric
\* vanishes, so the Christoffel symbols, and the curvature tensors built from
\* them, have every component zero
CurvatureFromMetric(c, g, rank) ==
    LET parsed == ParseMetric(c, g)
        n == Len(c)
        Zero[r \in 0..rank] ==
            IF r = 0 THEN 0 ELSE [i \in 1..n |-> Zero[r - 1]]
    IN  IF parsed.raised THEN parsed
        ELSE IF Len(parsed.value.g_dd) # n \/ \E r \in 1..n : Len(parsed.value.g_dd[r]) # n
        THEN Raised("ValueError")
        ELSE IF ~ Invertible(parsed.value.g_dd) THEN Raised("NonInvertibleMatrixError")
        ELSE Returned(Zero[rank])

\* sp.sstr of a component (the components of the model are small integers)
Sstr(e) ==
    IF e = 1 THEN "1" ELSE IF e = -1 THEN "-1" ELSE IF e = 4 THEN "4" ELSE "0"

\* _serialize_nested over tensor.tolist(), for a tensor of the given rank
RECURSIVE SerializeNested(_, _)
SerializeNested(t, rank) ==
    IF rank = 0 THEN Sstr(t)
    ELSE [i \in 1..Len(t) |-> SerializeNested(t[i], rank - 1)]

\* _parse_component over the components of an artifact
RECURSIVE ParseComponent(_, _)
ParseComponent(t, rank) ==
    IF rank = 0 THEN Sympify(t)
    ELSE [i \in 1..Len(t) |-> ParseComponent(t[i], rank - 1)]

\* tensor_to_artifact
TensorToArtifact(name, indices, tensor, c) ==
    [name |-> name, indices |-> indices,
     components |-> SerializeNested(tensor, Len(indices)),
     meta |-> [coords |-> c, signature |-> "-+++"]]

\* christoffel_symbols(metric): the TensorArtifact, or the exception
ChristoffelSymbols(c, g) ==
    LET t == CurvatureFromMetric(c, g, 3)
    IN  IF t.raised THEN t
        ELSE Returned(TensorToArtifact("christoffel", "udd", t.value, c))

\* einstein_tensor(metric)
EinsteinTensor(c, g) ==
    LET t == CurvatureFromMetric(c, g, 2)
    IN  IF t.raised THEN t
        ELSE Returned(TensorToArtifact("einstein", "dd", t.value, c))

\* metric_inverse(metric): parse, then Matrix.inv(); only whether it exists
\* is used here
MetricInverse(c, g) ==
    LET parsed == ParseMetric(c, g)
    IN  IF parsed.raised THEN parsed
        ELSE IF ~ Invertible(parsed.value.g_dd) THEN Raised("NonInvertibleMatrixError")
        ELSE Returned("g_inv")

\* riemann_covariant(metric): R_abcd = sum_e g_ae R^e_bcd
RiemannCovariant(c, g) ==
    LET t == CurvatureFromMetric(c, g, 4)
        parsed == ParseMetric(c, g)
        n == Len(c)
        gm == parsed.value.g_dd
        Lower(a, b, cc, d) ==
            LET S[e \in 0..n] ==
                    IF e = 0 THEN 0 ELSE S[e - 1] + gm[a][e] * t.value[e][b][cc][d]
            IN  S[n]
    IN  IF t.raised THEN t
        ELSE Returned([a \in 1..n |-> [b \in 1..n |-> [cc \in 1..n |-> [d \in 1..n |->
                          Lower(a, b, cc, d)]]]])

(***************************************************************************)
(* checks.py: the check engine                                             *)
(***************************************************************************)
None == [none |-> TRUE]

\* CheckResult(check_name=..., passed=..., residual=...)
CheckResult(name, passed, residual) ==
    [check_name |-> name, passed |-> passed, residual |-> residual]

\* _is_zero: sp.simplify(expr) == 0
IsZero(e) == e = 0

\* A slip: the residual of a failed comparison is dropped
CheckMetricSymmetryBare(c, g) ==
    LET parsed == ParseMetric(c, g)
    IN  IF parsed.raised THEN parsed
        ELSE LET m == parsed.value.g_dd
                 passed == \A i \in 1..Len(m) : \A j \in 1..Len(m) : IsZero(m[i][j] - m[j][i])
             IN  Returned(CheckResult("metric_symmetry", passed, None))

\* check_metric_symmetry
CheckMetricSymmetry(c, g) ==
    LET parsed == ParseMetric(c, g)
    IN  IF parsed.raised THEN parsed
        ELSE LET m == parsed.value.g_dd
                 residuals == [i \in 1..Len(m) |-> [j \in 1..Len(m) |-> m[i][j] - m[j][i]]]
                 passed == \A i \in 1..Len(m) : \A j \in 1..Len(m) : IsZero(residuals[i][j])
             IN  Returned(CheckResult("metric_symmetry", passed,
                                      IF passed THEN None ELSE [sstr |-> residuals]))

\* _tensor_from_artifact
TensorFromArtifact(artifact) == ParseComponent(artifact.components, Len(artifact.indices))

\* check_christoffel_symmetry
CheckChristoffelSymmetry(c, g) ==
    LET art == ChristoffelSymbols(c, g)
    IN  IF art.raised THEN art
        ELSE LET gamma == TensorFromArtifact(art.value)
                 n == Len(gamma)
                 passed == \A a \in 1..n : \A b \in 1..n : \A cc \in 1..n :
                              IsZero(gamma[a][b][cc] - gamma[a][cc][b])
             IN  Returned(CheckResult("christoffel_symmetry", passed,
                                      IF passed THEN None
                                      ELSE [text |-> "Gamma^a_{bc} != Gamma^a_{cb}"]))

\* _check_riemann_symmetry over all index tuples; expr[a][b][c][d] is the
\* value of expr_fn(a, b, c, d)
CheckRiemannSymmetry(name, expr) ==
    LET n == Len(expr)
        passed == \A a \in 1..n : \A b \in 1..n : \A cc \in 1..n : \A d \in 1..n :
                      IsZero(expr[a][b][cc][d])
    IN  CheckResult(name, passed, IF passed THEN None ELSE [text |-> name])

\* A slip: a sweep is made only when the sweeps before it passed, and is
\* reported as failed otherwise
RiemannSymmetryChecksChained(R) ==
    LET n == Len(R)
        Tuples(F(_, _, _, _)) ==
            [a \in 1..n |-> [b \in 1..n |-> [cc \in 1..n |-> [d \in 1..n |->
                F(a, b, cc, d)]]]]
        Last(a, b, cc, d) == R[a][b][cc][d] + R[a][b][d][cc]
        First(a, b, cc, d) == R[a][b][cc][d] + R[b][a][cc][d]
        Pair(a, b, cc, d) == R[a][b][cc][d] - R[cc][d][a][b]
        Skipped(name) == CheckResult(name, FALSE, [text |-> name])
        r1 == CheckRiemannSymmetry("riemann_antisym_last", Tuples(Last))
        r2 == IF r1.passed THEN CheckRiemannSymmetry("riemann_antisym_first", Tuples(First))
              ELSE Skipped("riemann_antisym_first")
        r3 == IF r2.passed THEN CheckRiemannSymmetry("riemann_pair_exchange", Tuples(Pair))
              ELSE Skipped("riemann_pair_exchange")
    IN  <<r1, r2, r3>>

\* the body of check_riemann_symmetries on the covariant Riemann tensor R:
\* three sweeps over all index tuples, one result each, in this order
RiemannSymmetryChecks(R) ==
    LET n == Len(R)
        Tuples(F(_, _, _, _)) ==
            [a \in 1..n |-> [b \in 1..n |-> [cc \in 1..n |-> [d \in 1..n |->
                F(a, b, cc, d)]]]]
        Last(a, b, cc, d) == R[a][b][cc][d] + R[a][b][d][cc]
        First(a, b, cc, d) == R[a][b][cc][d] + R[b][a][cc][d]
        Pair(a, b, cc, d) == R[a][b][cc][d] - R[cc][d][a][b]
    IN  <<CheckRiemannSymmetry("riemann_antisym_last", Tuples(Last)),
          CheckRiemannSymmetry("riemann_antisym_first", Tuples(First)),
          CheckRiemannSymmetry("riemann_pair_exchange", Tuples(Pair))>>

\* check_riemann_symmetries
CheckRiemannSymmetries(c, g) ==
    LET r == RiemannCovariant(c, g)
    IN  IF r.raised THEN r ELSE Returned(RiemannSymmetryChecks(r.value))

\* check_vacuum(metric) in symbolic mode (no sample points)
CheckVacuum(c, g) ==
    LET art == EinsteinTensor(c, g)
    IN  IF art.raised THEN art
        ELSE LET G == TensorFromArtifact(art.value)
                 passed == \A a \in 1..Len(G) : \A b \in 1..Len(G) : IsZero(G[a][b])
             IN  Returned(CheckResult("vacuum", passed,
                                      IF passed THEN None ELSE [text |-> "G_ab != 0"]))

\* check_contracted_bianchi: the divergence of a vanishing Einstein tensor
\* with vanishing connection coefficients is zero for every b
CheckContractedBianchi(c, g) ==
    LET parsed == ParseMetric(c, g)
        gamma == ChristoffelSymbols(c, g)
        ginv == MetricInverse(c, g)
        einstein == EinsteinTensor(c, g)
    IN  IF parsed.raised THEN parsed
        ELSE IF gamma.raised THEN gamma
        ELSE IF ginv.raised THEN ginv
        ELSE IF einstein.raised THEN einstein
        ELSE LET G == TensorFromArtifact(einstein.value)
                 Gam == TensorFromArtifact(gamma.value)
                 n == Len(c)
                 \* with g_mixed[a][b] = sum_c g_inv[a][c] * G[c][b] = 0
                 passed == \A a \in 1..n : \A b \in 1..n :
                              IsZero(G[a][b]) /\ \A cc \in 1..n : IsZero(Gam[a][b][cc])
             IN  Returned(CheckResult("contracted_bianchi", passed, None))

(***************************************************************************)
(* The engine behind the capability boundary: a request is validated into  *)
(* a MetricSpec, and the engine's functions are called on a MetricSpec.    *)
(***************************************************************************)
MInit ==
    /\ coords \in ListsOf(CoordNames)
    /\ g_dd \in ListsOf(ListsOf(Cells))
    /\ mpc = "request"
    /\ called = "none"
    /\ result = EmptyDict

\* MetricSpec(coords=..., g_dd=...): the model validator runs on construction
Construct ==
    /\ mpc = "request"
    /\ mpc' = IF ValidateShape(coords, g_dd) = "ok" THEN "valid" ELSE "rejected"
    /\ result' = IF ValidateShape(coords, g_dd) = "ok" THEN Returned("MetricSpec")
                 ELSE Raised(ValidateShape(coords, g_dd))
    /\ UNCHANGED <<coords, g_dd, called, ovars, args>>

\* parse_metric(metric) on a constructed MetricSpec: it returns, or an exception leaves it
CallParseMetric ==
    /\ mpc = "valid"
    /\ called' = "parse_metric"
    /\ result' = ParseMetric(coords, g_dd)
    /\ UNCHANGED <<coords, g_dd, mpc, ovars, args>>

\* check_metric_symmetry(metric) on a constructed MetricSpec: it returns, or an exception leaves it
CallCheckMetricSymmetry ==
    /\ mpc = "valid"
    /\ called' = "check_metric_symmetry"
    /\ result' = CheckMetricSymmetry(coords, g_dd)
    /\ UNCHANGED <<coords, g_dd, mpc, ovars, args>>

\* check_christoffel_symmetry(metric) on a constructed MetricSpec: it returns, or an exception leaves it
CallCheckChristoffelSymmetry ==
    /\ mpc = "valid"
    /\ called' = "check_christoffel_symmetry"
    /\ result' = CheckChristoffelSymmetry(coords, g_dd)
    /\ UNCHANGED <<coords, g_dd, mpc, ovars, args>>

\* check_riemann_symmetries(metric) on a constructed MetricSpec: it returns, or an exception leaves it
CallCheckRiemannSymmetries ==
    /\ mpc = "valid"
    /\ called' = "check_riemann_symmetries"
    /\ result' = CheckRiemannSymmetries(coords, g_dd)
    /\ UNCHANGED <<coords, g_dd, mpc, ovars, args>>

\* check_vacuum(metric) on a constructed MetricSpec: it returns, or an exception leaves it
CallCheckVacuum ==
    /\ mpc = "valid"
    /\ called' = "check_vacuum"
    /\ result' = CheckVacuum(coords, g_dd)
    /\ UNCHANGED <<coords, g_dd, mpc, ovars, args>>

\* check_contracted_bianchi(metric) on a constructed MetricSpec: it returns, or an exception leaves it
CallCheckContractedBianchi ==
    /\ mpc = "valid"
    /\ called' = "check_contracted_bianchi"
    /\ result' = CheckContractedBianchi(coords, g_dd)
    /\ UNCHANGED <<coords, g_dd, mpc, ovars, args>>

MetricNext ==
    \/ Construct
    \/ CallParseMetric
    \/ CallCheckMetricSymmetry
    \/ CallCheckChristoffelSymmetry
    \/ CallCheckRiemannSymmetries
    \/ CallCheckVacuum
    \/ CallCheckContractedBianchi

MetricInit == OInit /\ MInit /\ args = NoArgs

SpecMetric == MetricInit /\ [][MetricNext]_vars

(***************************************************************************)
(* Constant diagonal metrics, as dataset.py builds them (build_flat_metric) *)
(* and as the tests use them (Minkowski): distinct coordinate names, a      *)
(* constant on each diagonal cell, "0" elsewhere.                           *)
(***************************************************************************)
FlatCoordNames == <<"t", "x", "y", "z", "w">>
DiagCells == {"-1", "0", "1", "4"}

\* the matrix with the cells d on its diagonal and "0" off it
Diag(d) == [i \in 1..Len(d) |-> [j \in 1..Len(d) |-> IF i = j THEN d[i] ELSE "0"]]

FlatInit ==
    /\ OInit
    /\ args = NoArgs
    /\ \E n \in 1..FlatDim :
        /\ coords = SubSeq(FlatCoordNames, 1, n)
        /\ g_dd \in {Diag(d) : d \in [1..n -> DiagCells]}
    /\ mpc = "request"
    /\ called = "none"
    /\ result = EmptyDict

SpecFlat == FlatInit /\ [][MetricNext]_vars

MIdle ==
    /\ coords = <<>>
    /\ g_dd = <<>>
    /\ mpc = "request"
    /\ called = "none"
    /\ result = EmptyDict

Init == OInit /\ MIdle /\ args = NoArgs

Next == RunPlan \/ RerunFrom \/ Post \/ AddNode \/ Return \/ BuildReport

Spec == Init /\ [][Next]_vars

(***************************************************************************)
(* run_plan against a capability that may never answer: the request is     *)
(* sent, and the blocking call ends with the answer of the capability or   *)
(* with the timeout of the client, whichever comes first.                  *)
(***************************************************************************)
\* client.post(...) is entered: the request is on its way
Send ==
    /\ pc = "loop"
    /\ idx < Len(steps)
    /\ calls' = Append(calls, steps[idx + 1].endpoint)
    /\ pc' = "waiting"
    /\ UNCHANGED <<steps, nodes, artifacts, checks, idx, response, status, server,
                   op, old, reruns, report, callers, mvars, args>>

\* the capability answers, and the try/except takes the answer
Answer ==
    /\ pc = "waiting"
    /\ LET step == steps[idx + 1]
       IN  \E answer \in Answers :
            /\ server[step.endpoint] \in {Unset, answer}
            /\ server' = [server EXCEPT ![step.endpoint] = answer]
            /\ response' = TryPost(answer).response
            /\ status' = TryPost(answer).status
            /\ pc' = IF TryPost(answer).escaped THEN "raised" ELSE "posted"
    /\ UNCHANGED <<steps, nodes, artifacts, checks, idx, calls, op, old, reruns,
                   report, callers, mvars, args>>

\* the time of the client is out before an answer: client.post raises, and
\* the try/except takes the exception
TimeoutFires ==
    /\ pc = "waiting"
    /\ ClientTimeout.given
    /\ response' = TryPost(TimedOut).response
    /\ status' = TryPost(TimedOut).status
    /\ pc' = IF TryPost(TimedOut).escaped THEN "raised" ELSE "posted"
    /\ UNCHANGED <<steps, nodes, artifacts, checks, idx, server, calls, op, old,
                   reruns, report, callers, mvars, args>>

WaitingNext == RunPlan \/ Send \/ Answer \/ TimeoutFires \/ AddNode \/ Return

\* the program runs on when it can, and the timer of the client runs; no
\* capability is bound to answer
SpecWaiting ==
    /\ Init
    /\ [][WaitingNext]_vars
    /\ WF_vars(Send)
    /\ WF_vars(TimeoutFires)
    /\ WF_vars(AddNode)
    /\ WF_vars(Return)

(***************************************************************************)
(* check_riemann_symmetries on the tensor riemann_covariant hands it.  The *)
(* tensor comes from the curvature library; the sweeps are made on         *)
(* whatever it holds, so the tensors of the model are arbitrary: one or    *)
(* two components are 1 or -1, the others 0, or all are 0.                 *)
(***************************************************************************)
Positions(n) == (1..n) \X (1..n) \X (1..n) \X (1..n)

\* the tensor of dimension n whose components are f on DOMAIN f, 0 elsewhere
SparseTensor(n, f) ==
    [a \in 1..n |-> [b \in 1..n |-> [cc \in 1..n |-> [d \in 1..n |->
        IF <<a, b, cc, d>> \in DOMAIN f THEN f[<<a, b, cc, d>>] ELSE 0]]]]

\* the sets of at most two positions
Supports(n) == {{}} \cup {{p, q} : p, q \in Positions(n)}

\* the tensor args describes by its dimension and its non-zero components
RCov(a) == SparseTensor(a.n, a.nonzero)

RiemannInit ==
    /\ OInit
    /\ MIdle
    /\ \E n \in 1..RiemannDim : \E P \in Supports(n) : \E f \in [P -> {-1, 1}] :
            args = [fn |-> "check_riemann_symmetries", n |-> n, nonzero |-> f]

\* check_riemann_symmetries, from the tensor on
CallRiemannSymmetryChecks ==
    /\ DOMAIN args # {}
    /\ args.fn = "check_riemann_symmetries"
    /\ called' = "check_riemann_symmetries"
    /\ result' = Returned(RiemannSymmetryChecks(RCov(args)))
    /\ UNCHANGED <<coords, g_dd, mpc, ovars, args>>

RiemannNext == CallRiemannSymmetryChecks

SpecRiemann == RiemannInit /\ [][RiemannNext]_vars

(***************************************************************************)
(* Symbolic components.  A component of a tensor is the expression         *)
(* coef * (product of its symbols), or one of the constants oo and nan; a  *)
(* component with coef 0 that still has symbols is an expression that is   *)
(* identically zero but not written as 0, such as sin(t)**2+cos(t)**2-1.   *)
(* A symbol is its name together with its assumptions: parse_metric makes  *)
(* the coordinate symbols with real=True (Symbol), while a name sympify    *)
(* meets without a locals map becomes a symbol without assumptions         *)
(* (PlainSymbol).  Two symbols are equal when name and assumptions agree.  *)
(***************************************************************************)
\* sp.symbols(name), sp.sympify("name")
PlainSymbol(name) == [name |-> name]

Poly(coef, syms) == [kind |-> "poly", coef |-> coef, syms |-> syms]
Infinity == [kind |-> "oo", coef |-> 0, syms |-> {}]
NotANumber == [kind |-> "nan", coef |-> 0, syms |-> {}]

\* _serialize_expr: sp.sstr prints the names of the symbols, not their
\* assumptions
SerializeExpr(e) ==
    [kind |-> e.kind, coef |-> e.coef, names |-> {sym.name : sym \in e.syms}]

\* _parse_component: sp.sympify(value), called without locals, makes a new
\* symbol without assumptions for every name in the text
ParseComponentText(text) ==
    [kind |-> text.kind, coef |-> text.coef,
     syms |-> {PlainSymbol(n) : n \in text.names}]

\* tensor_to_artifact(...).components for a rank-2 tensor of such components
SerializeTensor(t) == [i \in 1..Len(t) |-> [j \in 1..Len(t[i]) |-> SerializeExpr(t[i][j])]]

\* _tensor_from_artifact for a rank-2 artifact
TensorFromComponents(comps) ==
    [i \in 1..Len(comps) |-> [j \in 1..Len(comps[i]) |-> ParseComponentText(comps[i][j])]]

\* A slip: the expression is compared with 0 as it is written
IsZeroAsWritten(e) == e.kind = "poly" /\ e.coef = 0 /\ e.syms = {}

\* _is_zero: sp.simplify(expr) == 0
IsZeroExpr(e) == e.kind = "poly" /\ e.coef = 0

(***************************************************************************)
(* Python floats: a finite value (counted in units of 1e-9), inf or nan.   *)
(***************************************************************************)
Fin(v) == [k |-> "fin", v |-> v]
FInf == [k |-> "inf", v |-> 0]
FNaN == [k |-> "nan", v |-> 0]

\* abs(x)
FAbs(x) == IF x.k = "fin" THEN Fin(IF x.v < 0 THEN - x.v ELSE x.v) ELSE x

\* a > b: false when either is nan
FGt(a, b) ==
    /\ a.k # "nan" /\ b.k # "nan"
    /\ \/ a.k = "inf" /\ b.k = "fin"
       \/ a.k = "fin" /\ b.k = "fin" /\ a.v > b.v

\* a <= b: false when either is nan
FLe(a, b) ==
    /\ a.k # "nan" /\ b.k # "nan"
    /\ \/ b.k = "inf"
       \/ a.k = "fin" /\ b.k = "fin" /\ a.v <= b.v

\* max(a, b): the first argument unless the second is greater
PyMax(a, b) == IF FGt(b, a) THEN b ELSE a

(***************************************************************************)
(* checks.py: the vacuum check, from the Einstein tensor the curvature     *)
(* library hands it                                                        *)
(***************************************************************************)
\* the product of the values vals gives to the symbols of syms
RECURSIVE Product(_, _)
Product(syms, vals) ==
    IF syms = {} THEN 1
    ELSE LET sym == CHOOSE x \in syms : TRUE
         IN  vals[sym] * Product(syms \ {sym}, vals)

\* float(sp.N(value.subs(substitutions))): the float, or the TypeError of an
\* expression that still has a free symbol
EvalFloat(e, substitutions) ==
    IF e.syms \ DOMAIN substitutions # {} THEN Raised("TypeError")
    ELSE IF e.kind = "oo" THEN Returned(FInf)
    ELSE IF e.kind = "nan" THEN Returned(FNaN)
    ELSE Returned(Fin(e.coef * Product(e.syms, substitutions)))

\* the substitutions dict _evaluate_tensor_max builds from a sample: the key
\* of a name is its coord_map symbol, or a plain symbol when coord_map has none
Substitutions(coord_map, sample) ==
    LET Key(name) == IF name \in DOMAIN coord_map THEN coord_map[name] ELSE PlainSymbol(name)
    IN  [sym \in {Key(name) : name \in DOMAIN sample} |->
            sample[CHOOSE name \in DOMAIN sample : Key(name) = sym]]

\* the list iterate_components yields for a rank-2 tensor, row by row
RECURSIVE IterateComponents(_)
IterateComponents(t) ==
    IF Len(t) = 0 THEN <<>>
    ELSE IterateComponents(SubSeq(t, 1, Len(t) - 1)) \o t[Len(t)]

\* _evaluate_tensor_max: a component whose conversion raises is passed over
EvaluateTensorMax(tensor, coord_map, sample) ==
    LET subst == Substitutions(coord_map, sample)
        comps == IterateComponents(tensor)
        MaxAbs[k \in 0..Len(comps)] ==
            IF k = 0 THEN Fin(0)
            ELSE LET numeric == EvalFloat(comps[k], subst)
                 IN  IF numeric.raised THEN MaxAbs[k - 1]
                     ELSE PyMax(MaxAbs[k - 1], FAbs(numeric.value))
    IN  MaxAbs[Len(comps)]

\* the threshold check_vacuum uses when epsilon is None: 1e-8
DefaultThreshold == 10

\* an Optional argument: absent (None), or given with a value
Absent == [given |-> FALSE]
Given(value) == [given |-> TRUE, value |-> value]

\* check_vacuum from the engine's Einstein tensor on: the tensor goes through
\* einstein_tensor's artifact and _tensor_from_artifact; a non-empty
\* sample_points list selects the numeric mode
CheckVacuumOn(engine, coord_map, sample_points, epsilon) ==
    LET einstein == TensorFromComponents(SerializeTensor(engine))
        points == IF sample_points.given THEN sample_points.value ELSE <<>>
        MaxAbs[k \in 0..Len(points)] ==
            IF k = 0 THEN Fin(0)
            ELSE PyMax(MaxAbs[k - 1], EvaluateTensorMax(einstein, coord_map, points[k]))
        max_abs == MaxAbs[Len(points)]
        threshold == IF epsilon.given THEN Fin(epsilon.value) ELSE Fin(DefaultThreshold)
        comps == IterateComponents(einstein)
        zero == \A k \in 1..Len(comps) : IsZeroExpr(comps[k])
    IN  IF Len(points) > 0
        THEN [check_name |-> "vacuum", passed |-> FLe(max_abs, threshold),
              residual |-> [str |-> max_abs],
              notes |-> [max_abs |-> max_abs, threshold |-> threshold]]
        ELSE CheckResult("vacuum", zero, IF zero THEN None ELSE [text |-> "G_ab != 0"])

(***************************************************************************)
(* check_vacuum and the artifact round trip on the Einstein tensor of a    *)
(* diagonal metric: the tensor is diagonal, and a diagonal component is    *)
(* zero, a constant, an expression in the coordinate t, an expression in   *)
(* the parameter M of the metric, an unsimplified zero, oo or nan.         *)
(***************************************************************************)
DiagonalComponents ==
    {Poly(0, {}), Poly(20, {}), Poly(20, {Symbol("t")}), Poly(5, {PlainSymbol("M")}),
     Poly(0, {Symbol("t")}), Infinity, NotANumber}

\* the diagonal tensor with the components d
DiagTensor(d) ==
    [i \in 1..Len(d) |-> [j \in 1..Len(d) |-> IF i = j THEN d[i] ELSE Poly(0, {})]]

\* a sample gives the coordinate t a value and the parameter M a value, or
\* leaves M out
Samples == {[t |-> 1, M |-> 1], [t |-> 1, M |-> 3], [t |-> 2]}

SampleLists == UNION {[1..n -> Samples] : n \in 0..MaxSamples}

Epsilons == {Absent, Given(0), Given(1000)}

\* parse_metric(metric).coord_map
CoordMap(c) == [n \in {c[i] : i \in 1..Len(c)} |-> Symbol(n)]

VacuumInit ==
    /\ OInit
    /\ MIdle
    /\ \E n \in 1..MaxDim : \E d \in [1..n -> DiagonalComponents] :
       \E sp \in {Absent} \cup {Given(l) : l \in SampleLists} : \E eps \in Epsilons :
            args = [fn |-> "check_vacuum", coords |-> SubSeq(FlatCoordNames, 1, n),
                    einstein |-> DiagTensor(d), sample_points |-> sp, epsilon |-> eps]

\* check_vacuum(metric, sample_points, epsilon)
CallCheckVacuumOn ==
    /\ DOMAIN args # {}
    /\ args.fn = "check_vacuum"
    /\ called' = "check_vacuum"
    /\ result' = Returned(CheckVacuumOn(args.einstein, CoordMap(args.coords),
                                        args.sample_points, args.epsilon))
    /\ UNCHANGED <<coords, g_dd, mpc, ovars, args>>

\* _tensor_from_artifact(tensor_to_artifact(...)) on the Einstein tensor
CallRoundTrip ==
    /\ DOMAIN args # {}
    /\ args.fn = "check_vacuum"
    /\ called' = "round_trip"
    /\ result' = Returned(TensorFromComponents(SerializeTensor(args.einstein)))
    /\ UNCHANGED <<coords, g_dd, mpc, ovars, args>>

VacuumNext == CallCheckVacuumOn \/ CallRoundTrip

SpecVacuum == VacuumInit /\ [][VacuumNext]_vars

(***************************************************************************)
(* cas.py: tiered simplification.  The tiers are functions of the symbolic *)
(* library: applied to an expression, a tier returns a new form of it or   *)
(* raises.  An expression is kept as the input it comes from and the tiers *)
(* applied to it so far; which tiers raise on a component is an input.     *)
(***************************************************************************)
Tiers == <<"simplify", "together", "factor">>

\* the form tier makes of the expression e
Apply(tier, e) == [base |-> e.base, ops |-> Append(e.ops, tier)]

\* simplify_expr(expr, level), the tiers in fails raising: the value it
\* returns and the tiers it called
SimplifyExpr(expr, level, fails) ==
    LET s1 == IF "simplify" \in fails THEN expr ELSE Apply("simplify", expr)
        s2 == Apply("together", s1)
        s3 == IF "factor" \in fails THEN s2 ELSE Apply("factor", s2)
    IN  IF level <= 0 THEN [value |-> expr, attempted |-> <<>>]
        ELSE IF level <= 1 THEN [value |-> s1, attempted |-> <<"simplify">>]
        ELSE IF "together" \in fails
             THEN [value |-> s1, attempted |-> <<"simplify", "together">>]
        ELSE IF level <= 2 THEN [value |-> s2, attempted |-> <<"simplify", "together">>]
        ELSE [value |-> s3, attempted |-> <<"simplify", "together", "factor">>]

\* simplify_tensor(tensor, level): simplify_expr on every component
SimplifyTensor(tensor, level, fails) ==
    [i \in 1..Len(tensor) |-> SimplifyExpr(tensor[i], level, fails[i])]

Levels == -1..4

SimplifyInit ==
    /\ OInit
    /\ MIdle
    /\ \E n \in 1..MaxDim : \E level \in Levels :
       \E fails \in [1..n -> SUBSET {Tiers[k] : k \in 1..Len(Tiers)}] :
            args = [fn |-> "simplify_tensor",
                    tensor |-> [i \in 1..n |-> [base |-> i, ops |-> <<>>]],
                    level |-> level, fails |-> fails]

\* simplify_tensor(tensor, level)
CallSimplifyTensor ==
    /\ DOMAIN args # {}
    /\ args.fn = "simplify_tensor"
    /\ called' = "simplify_tensor"
    /\ result' = Returned(SimplifyTensor(args.tensor, args.level, args.fails))
    /\ UNCHANGED <<coords, g_dd, mpc, ovars, args>>

SimplifyNext == CallSimplifyTensor

SpecSimplify == SimplifyInit /\ [][SimplifyNext]_vars

(***************************************************************************)
(* units.py: the unit check.  An expression is the tree sympify makes of   *)
(* the text: a number, a symbol, a sum or product of two terms, a power    *)
(* with the numeric exponent 2 ("pow") or with a symbolic exponent         *)
(* ("powsym"), a function call with one or two arguments, or a node of     *)
(* another kind ("other": a derivative, a relation, the constant pi).      *)
(* Text that sympify cannot parse is "unparsable".  A unit is the power of *)
(* the length it stands for: 0 is dimensionless.  symbol_units maps the    *)
(* declared names to their units.                                          *)
(***************************************************************************)
Leaves ==
    {[op |-> "num"], [op |-> "sym", name |-> "x"], [op |-> "sym", name |-> "k"],
     [op |-> "other"]}

\* the nodes with first argument in S and second argument, if any, in T
NodesOver(S, T) ==
    {[op |-> o, l |-> a, r |-> b] : o \in {"add", "mul", "fn"}, a \in S, b \in T}
        \cup {[op |-> o, l |-> a] : o \in {"pow", "powsym", "fn"}, a \in S}

Shallow == Leaves \cup NodesOver(Leaves, Leaves)

Expressions == Shallow \cup NodesOver(Shallow, Leaves) \cup {[op |-> "unparsable"]}

UnitMaps == UNION {[D -> {0, 1}] : D \in SUBSET {"x", "k"}}

UnitSystems == {"SI", "geometrized", "GEOM"}

\* _unit_of_expr: the unit, or the exception it raises
RECURSIVE UnitOfExpr(_, _)
UnitOfExpr(expr, symbol_units) ==
    IF expr.op = "num" THEN Returned(0)
    ELSE IF expr.op = "sym"
    THEN IF expr.name \notin DOMAIN symbol_units THEN Raised("KeyError: missing unit for symbol")
         ELSE Returned(symbol_units[expr.name])
    ELSE IF expr.op = "add"
    THEN LET u1 == UnitOfExpr(expr.l, symbol_units)
             u2 == UnitOfExpr(expr.r, symbol_units)
         IN  IF u1.raised THEN u1
             ELSE IF u2.raised THEN u2
             ELSE IF u2.value # u1.value THEN Raised("ValueError: unit mismatch in sum")
             ELSE u1
    ELSE IF expr.op = "mul"
    THEN LET u1 == UnitOfExpr(expr.l, symbol_units)
             u2 == UnitOfExpr(expr.r, symbol_units)
         IN  IF u1.raised THEN u1
             ELSE IF u2.raised THEN u2
             ELSE Returned(u1.value + u2.value)
    ELSE IF expr.op = "powsym"
    THEN Raised("ValueError: non-numeric exponent in unit expression")
    ELSE IF expr.op = "pow"
    THEN LET u == UnitOfExpr(expr.l, symbol_units)
         IN  IF u.raised THEN u ELSE Returned(2 * u.value)
    ELSE IF expr.op = "fn"
    THEN LET u == UnitOfExpr(expr.l, symbol_units)
         IN  IF u.raised THEN u
             ELSE IF u.value # 0 THEN Raised("ValueError: function expects dimensionless argument")
             ELSE Returned(0)
    ELSE Raised("ValueError: unsupported expression for unit check")

\* unit_system.lower().startswith("geom")
Geometrized(unit_system) == unit_system \in {"geometrized", "GEOM"}

\* A slip: the expression is parsed and its units assigned before the unit
\* system is looked at
CheckUnitsParseFirst(expression, symbol_units, unit_system) ==
    LET unit == UnitOfExpr(expression, symbol_units)
    IN  IF expression.op = "unparsable"
        THEN Returned([check_name |-> "unit_check", passed |-> FALSE, notes |-> "SympifyError"])
        ELSE IF unit.raised
        THEN Returned([check_name |-> "unit_check", passed |-> FALSE, notes |-> unit.exc])
        ELSE IF Geometrized(unit_system)
        THEN Returned([check_name |-> "unit_check", passed |-> TRUE,
                       notes |-> "geometrized units assumed; no dimension check applied"])
        ELSE Returned([check_name |-> "unit_check", passed |-> TRUE, notes |-> "None"])

\* check_units
CheckUnits(expression, symbol_units, unit_system) ==
    LET unit == UnitOfExpr(expression, symbol_units)
    IN  IF Geometrized(unit_system)
        THEN Returned([check_name |-> "unit_check", passed |-> TRUE,
                       notes |-> "geometrized units assumed; no dimension check applied"])
        ELSE IF expression.op = "unparsable"
        THEN Returned([check_name |-> "unit_check", passed |-> FALSE, notes |-> "SympifyError"])
        ELSE IF unit.raised
        THEN Returned([check_name |-> "unit_check", passed |-> FALSE, notes |-> unit.exc])
        ELSE Returned([check_name |-> "unit_check", passed |-> TRUE, notes |-> "None"])

UnitsInit ==
    /\ OInit
    /\ MIdle
    /\ \E e \in Expressions : \E u \in UnitMaps : \E us \in UnitSystems :
            args = [fn |-> "check_units", expression |-> e, symbol_units |-> u,
                    unit_system |-> us]

\* check_units(expression, symbol_units, unit_system)
CallCheckUnits ==
    /\ DOMAIN args # {}
    /\ args.fn = "check_units"
    /\ called' = "check_units"
    /\ result' = CheckUnits(args.expression, args.symbol_units, args.unit_system)
    /\ UNCHANGED <<coords, g_dd, mpc, ovars, args>>

UnitsNext == CallCheckUnits

SpecUnits == UnitsInit /\ [][UnitsNext]_vars

(***************************************************************************)
(* parse_metric: the symbols of the coordinates and their assumptions      *)
(***************************************************************************)
\* a Python value as _normalize_assumptions looks at it: its type and content
PyBool(b) == [type |-> "bool", v |-> b]
PyDict(d) == [type |-> "dict", v |-> d]

\* _normalize_assumptions: an entry that is not a dict is skipped, and of a
\* dict the flags that are booleans are kept
NormalizeAssumptions(assumptions) ==
    LET kept == {k \in DOMAIN assumptions : assumptions[k].type = "dict"}
    IN  [k \in kept |->
            LET values == assumptions[k].v
                flags == {f \in DOMAIN values : values[f].type = "bool"}
            IN  [f \in flags |-> values[f].v]]

\* {"real": True, **assumptions.get(name, {})}: the flags of the caller are
\* laid over the default, the caller's value standing where both name a flag
SymAssumptions(assumptions, name) ==
    LET given == IF name \in DOMAIN assumptions THEN assumptions[name] ELSE EmptyDict
    IN  [f \in {"real"} \cup DOMAIN given |->
            IF f \in DOMAIN given THEN given[f] ELSE TRUE]

\* sp.symbols(name, **flags): a symbol is its name and its assumptions
SymbolWith(name, flags) ==
    [k \in {"name"} \cup DOMAIN flags |-> IF k = "name" THEN name ELSE flags[k]]

\* sympy refuses a symbol that is positive and not real
Inconsistent(flags) ==
    /\ {"real", "positive"} \subseteq DOMAIN flags
    /\ flags["positive"] /\ ~ flags["real"]

\* parse_metric up to the cells: coord_map holds one symbol for each name of
\* coords; a name of a cell that is not in coord_map is sympified to a symbol
\* without assumptions
ParseMetricSymbols(c, assumptions, cell_names) ==
    LET normalized == NormalizeAssumptions(assumptions)
        names == {c[i] : i \in 1..Len(c)}
        sym_assumptions == [n \in names |-> SymAssumptions(normalized, n)]
    IN  IF \E n \in names : Inconsistent(sym_assumptions[n])
        THEN Raised("InconsistentAssumptions")
        ELSE Returned([coords |-> c,
                       coord_map |-> [n \in names |-> SymbolWith(n, sym_assumptions[n])],
                       free |-> {PlainSymbol(n) : n \in cell_names \ names}])

AssumedCoords == {"t", "r"}
AssumedParameters == {"M"}
AssumptionFlags == {"real", "positive"}

\* MetricSpec.assumptions is typed Dict[str, Dict[str, bool]]: validation
\* leaves dicts of booleans
FlagDicts ==
    UNION {[fs -> {PyBool(TRUE), PyBool(FALSE)}] : fs \in SUBSET AssumptionFlags}

AssumptionMaps ==
    UNION {[ns -> {PyDict(d) : d \in FlagDicts}] :
                ns \in SUBSET (AssumedCoords \cup AssumedParameters)}

CoordLists ==
    {c \in UNION {[1..n -> AssumedCoords] : n \in 1..2} :
        \A i, j \in 1..Len(c) : c[i] = c[j] => i = j}

AssumeInit ==
    /\ OInit
    /\ MIdle
    /\ \E c \in CoordLists : \E a \in AssumptionMaps :
       \E p \in SUBSET AssumedParameters :
            args = [fn |-> "parse_metric", coords |-> c, assumptions |-> a,
                    cell_names |-> p]

\* parse_metric(metric)
CallParseMetricSymbols ==
    /\ DOMAIN args # {}
    /\ args.fn = "parse_metric"
    /\ called' = "parse_metric_symbols"
    /\ result' = ParseMetricSymbols(args.coords, args.assumptions, args.cell_names)
    /\ UNCHANGED <<coords, g_dd, mpc, ovars, args>>

AssumeNext == CallParseMetricSymbols

SpecAssume == AssumeInit /\ [][AssumeNext]_vars

(***************************************************************************)
(* Two callers on one RunDAG.  run_plan builds a DAG of its own, so a DAG  *)
(* is shared through rerun_from: each caller calls                         *)
(* Orchestrator.rerun_from(dag, steps, k) on the DAG a run_plan returned.  *)
(* Nothing in RunDAG or Orchestrator holds a lock; a caller may be         *)
(* overtaken between any two statements of RunDAG.rerun_from, of the loop  *)
(* of _execute_steps and of RunDAG.add_node.                               *)
(***************************************************************************)
Callers == {1, 2}

\* the answers the callers of a shared DAG get: an error of the connection,
\* or a single result
SharedAnswers ==
    {a \in Answers : a.kind = "connect_error" \/ (a.code = 200 /\ a.body = CheckPass)}

\* the plans of a shared DAG: steps that store an artifact and steps that
\* store checks
SharedPlans ==
    {p \in Plans : \A i \in 1..Len(p) : p[i].name \in {"riemann", "metric_validate"}}

\* the DAG run_plan(plan) returns when every capability answers a check result
RECURSIVE RunAll(_, _)
RunAll(plan, n) ==
    IF n = 0 THEN EmptyDAG
    ELSE LET step == plan[n]
             t == TryPost([kind |-> "http", code |-> 200, body |-> CheckPass])
             c == Classify(step.kind, t.response)
         IN  DagAddNode(RunAll(plan, n - 1), RunNode(step, t.status, c.outputs, c.checks))

Outside == {"idle", "done"}

SharedInit ==
    /\ \E plan \in SharedPlans :
        /\ steps = plan
        /\ nodes = RunAll(plan, Len(plan)).nodes
        /\ artifacts = RunAll(plan, Len(plan)).artifacts
        /\ checks = RunAll(plan, Len(plan)).checks
    /\ pc = "shared"
    /\ idx = 0
    /\ response = EmptyDict
    /\ status = "none"
    /\ server = [e \in Endpoints |-> Unset]
    /\ calls = <<>>
    /\ op = [name |-> "none", start |-> 0]
    /\ old = EmptyDAG
    /\ reruns = 0
    /\ report = NoReport
    /\ callers = [c \in Callers |->
                    [pc |-> "idle", k |-> 0, idx |-> 0, response |-> EmptyDict,
                     status |-> "none", overtook |-> FALSE]]
    /\ MIdle
    /\ args = NoArgs

SharedUnchanged ==
    UNCHANGED <<steps, pc, idx, response, status, server, calls, op, old, reruns,
                report, mvars, args>>

\* the node the caller's iteration builds from its locals
NodeOf(c) ==
    LET step == steps[callers[c].idx + 1]
        cl == Classify(step.kind, callers[c].response)
    IN  RunNode(step, callers[c].status, cl.outputs, cl.checks)

\* Orchestrator.rerun_from is entered: the guard of RunDAG.rerun_from, and
\* self.nodes = self.nodes[:index] when the index is in range
SharedRerunFrom(c) ==
    /\ callers[c].pc = "idle"
    /\ \E k \in -1 .. Len(steps) :
        LET inside == \E d \in Callers \ {c} : callers[d].pc \notin Outside
            out == k < 0 \/ k >= Len(nodes)
        IN  /\ nodes' = IF out THEN nodes ELSE SliceTo(nodes, k)
            /\ callers' = [callers EXCEPT ![c] =
                    [@ EXCEPT !.pc = IF out THEN "loop" ELSE "artifacts",
                              !.k = k, !.idx = SliceStart(steps, k),
                              !.overtook = inside]]
    /\ UNCHANGED <<artifacts, checks>>
    /\ SharedUnchanged

\* self.artifacts = {}
SharedResetArtifacts(c) ==
    /\ callers[c].pc = "artifacts"
    /\ artifacts' = <<>>
    /\ callers' = [callers EXCEPT ![c].pc = "checks"]
    /\ UNCHANGED <<nodes, checks>>
    /\ SharedUnchanged

\* A slip: the checks are left as they were
SharedKeepChecks(c) ==
    /\ callers[c].pc = "checks"
    /\ callers' = [callers EXCEPT ![c].pc = "loop"]
    /\ UNCHANGED <<nodes, artifacts, checks>>
    /\ SharedUnchanged

\* self.checks = []
SharedResetChecks(c) ==
    /\ callers[c].pc = "checks"
    /\ checks' = <<>>
    /\ callers' = [callers EXCEPT ![c].pc = "loop"]
    /\ UNCHANGED <<nodes, artifacts>>
    /\ SharedUnchanged

\* the request of one iteration and the try/except around it
SharedPost(c) ==
    /\ callers[c].pc = "loop"
    /\ callers[c].idx < Len(steps)
    /\ \E answer \in SharedAnswers :
        callers' = [callers EXCEPT ![c] =
            [@ EXCEPT !.response = TryPost(answer).response,
                      !.status = TryPost(answer).status,
                      !.pc = "append"]]
    /\ UNCHANGED <<nodes, artifacts, checks>>
    /\ SharedUnchanged

\* add_node: self.nodes.append(node)
SharedAppend(c) ==
    /\ callers[c].pc = "append"
    /\ nodes' = Append(nodes, NodeOf(c))
    /\ callers' = [callers EXCEPT ![c].pc = "put"]
    /\ UNCHANGED <<artifacts, checks>>
    /\ SharedUnchanged

\* add_node: if node.output_key and node.outputs: self.artifacts[key] = outputs
SharedPut(c) ==
    /\ callers[c].pc = "put"
    /\ LET node == NodeOf(c)
       IN  artifacts' =
            IF node.output_key # NoKey /\ node.output_key # "" /\ DictTruthy(node.outputs)
            THEN OrderedSet(artifacts, node.output_key, node.outputs)
            ELSE artifacts
    /\ callers' = [callers EXCEPT ![c].pc = "extend"]
    /\ UNCHANGED <<nodes, checks>>
    /\ SharedUnchanged

\* add_node: if node.checks: self.checks.extend(node.checks); the loop goes
\* on to the next step
SharedExtend(c) ==
    /\ callers[c].pc = "extend"
    /\ LET node == NodeOf(c)
       IN  checks' = IF Len(node.checks) > 0 THEN checks \o node.checks ELSE checks
    /\ callers' = [callers EXCEPT ![c] = [@ EXCEPT !.pc = "loop", !.idx = @ + 1]]
    /\ UNCHANGED <<nodes, artifacts>>
    /\ SharedUnchanged

\* the loop is exhausted: return dag
SharedReturn(c) ==
    /\ callers[c].pc = "loop"
    /\ callers[c].idx >= Len(steps)
    /\ callers' = [callers EXCEPT ![c].pc = "done"]
    /\ UNCHANGED <<nodes, artifacts, checks>>
    /\ SharedUnchanged

SharedNext ==
    \E c \in Callers :
        \/ SharedRerunFrom(c)
        \/ SharedResetArtifacts(c)
        \/ SharedResetChecks(c)
        \/ SharedPost(c)
        \/ SharedAppend(c)
        \/ SharedPut(c)
        \/ SharedExtend(c)
        \/ SharedReturn(c)

SpecShared == SharedInit /\ [][SharedNext]_vars

(***************************************************************************)
(* Orchestrator.run_metric_pipeline.  The metric is the JSON object main   *)
(* loads; a JSON value is kept with its type.                              *)
(***************************************************************************)
JNull == [t |-> "null"]
JList(l) == [t |-> "list", v |-> l]
JNumber(n) == [t |-> "number", v |-> n]
JString(s) == [t |-> "string", v |-> s]

\* bool(v) of a JSON value
JTruthy(v) ==
    IF v.t = "null" THEN FALSE
    ELSE IF v.t = "list" THEN Len(v.v) > 0
    ELSE IF v.t = "number" THEN v.v # 0
    ELSE v.v # ""

\* metric.get(key): None when the key is absent
MetricGet(metric, key) == IF HasKey(metric, key) THEN metric[key] ELSE JNull

\* metric_payload: the metric without the two keys of the vacuum check
MetricPayload(metric) ==
    [k \in DOMAIN metric \ {"vacuum_sample_points", "vacuum_epsilon"} |-> metric[k]]

\* A slip: the two keys are carried whenever the metric has them
VacuumPayloadAsGiven(metric) ==
    LET keys == {"metric"}
            \cup (IF HasKey(metric, "vacuum_sample_points")
                  THEN {"sample_points"} ELSE {})
            \cup (IF HasKey(metric, "vacuum_epsilon")
                  THEN {"epsilon"} ELSE {})
    IN  [k \in keys |->
            IF k = "metric" THEN MetricPayload(metric)
            ELSE IF k = "sample_points" THEN MetricGet(metric, "vacuum_sample_points")
            ELSE MetricGet(metric, "vacuum_epsilon")]

\* vacuum_payload: sample_points when metric.get("vacuum_sample_points") is
\* truthy, epsilon when metric.get("vacuum_epsilon") is not None
VacuumPayload(metric) ==
    LET keys == {"metric"}
            \cup (IF JTruthy(MetricGet(metric, "vacuum_sample_points"))
                  THEN {"sample_points"} ELSE {})
            \cup (IF MetricGet(metric, "vacuum_epsilon") # JNull
                  THEN {"epsilon"} ELSE {})
    IN  [k \in keys |->
            IF k = "metric" THEN MetricPayload(metric)
            ELSE IF k = "sample_points" THEN MetricGet(metric, "vacuum_sample_points")
            ELSE MetricGet(metric, "vacuum_epsilon")]

\* the steps list of run_metric_pipeline
PipelineSteps(metric) ==
    LET mp == MetricPayload(metric)
    IN  << PlanStep("metric_validate", "/physics/metric-validate", mp, "checks", NoKey),
           PlanStep("christoffel", "/physics/christoffel", mp, "artifact", "christoffel"),
           PlanStep("riemann", "/physics/riemann", mp, "artifact", "riemann"),
           PlanStep("ricci", "/physics/ricci", mp, "artifact", "ricci"),
           PlanStep("ricci_scalar", "/physics/ricci-scalar", mp, "scalar", "ricci_scalar"),
           PlanStep("einstein", "/physics/einstein-tensor", mp, "artifact", "einstein"),
           PlanStep("invariants", "/physics/invariants", mp, "invariants", "invariants"),
           PlanStep("check_metric_symmetry", "/physics/check-metric-symmetry", mp, "checks", NoKey),
           PlanStep("check_christoffel_symmetry", "/physics/check-christoffel-symmetry", mp, "checks", NoKey),
           PlanStep("check_riemann_symmetries", "/physics/check-riemann-symmetries", mp, "checks", NoKey),
           PlanStep("check_contracted_bianchi", "/physics/check-contracted-bianchi", mp, "checks", NoKey),
           PlanStep("check_vacuum", "/physics/check-vacuum", VacuumPayload(metric), "checks", NoKey) >>

\* dataset.py: DEFAULT_TOOLS, the tools of the pipeline in its order
DefaultTools ==
    << "physics.metric-validate", "physics.christoffel", "physics.riemann",
       "physics.ricci", "physics.ricci-scalar", "physics.einstein-tensor",
       "physics.invariants", "physics.check-metric-symmetry",
       "physics.check-christoffel-symmetry", "physics.check-riemann-symmetries",
       "physics.check-contracted-bianchi", "physics.check-vacuum" >>

\* the metrics handed to the pipeline: coords, with or without a signature,
\* and the two keys of the vacuum check absent, null, empty or given
PipelineMetrics ==
    LET points == {JNull, JList(<<>>), JList(<<[t |-> 2]>>)}
        epsilons == {JNull, JNumber(0), JNumber(1000)}
        base == {[coords |-> JList(<<"t", "x">>)],
                 [coords |-> JList(<<"t", "x">>), signature |-> JString("-+")]}
        with(m, key, values) ==
            {m} \cup {[k \in DOMAIN m \cup {key} |-> IF k = key THEN v ELSE m[k]] :
                            v \in values}
    IN  UNION {with(m, "vacuum_epsilon", epsilons) :
                    m \in UNION {with(b, "vacuum_sample_points", points) : b \in base}}

PipelineInit ==
    /\ OInit
    /\ MIdle
    /\ \E m \in PipelineMetrics : args = [fn |-> "run_metric_pipeline", metric |-> m]

\* run_metric_pipeline(metric): the plan is built and run_plan is entered
RunMetricPipeline ==
    /\ pc = "idle"
    /\ DOMAIN args # {}
    /\ args.fn = "run_metric_pipeline"
    /\ steps' = PipelineSteps(args.metric)
    /\ idx' = 0
    /\ nodes' = EmptyDAG.nodes
    /\ artifacts' = EmptyDAG.artifacts
    /\ checks' = EmptyDAG.checks
    /\ old' = EmptyDAG
    /\ op' = [name |-> "run_metric_pipeline", start |-> 0]
    /\ calls' = <<>>
    /\ pc' = "loop"
    /\ UNCHANGED <<response, status, server, reruns, report, callers, mvars, args>>

\* one iteration of _execute_steps, first half, for the endpoints of the
\* pipeline: the request fails or is answered with a result
PipelinePost ==
    /\ pc = "loop"
    /\ idx < Len(steps)
    /\ \E answer \in SharedAnswers :
        /\ response' = TryPost(answer).response
        /\ status' = TryPost(answer).status
        /\ pc' = IF TryPost(answer).escaped THEN "raised" ELSE "posted"
    /\ calls' = Append(calls, steps[idx + 1].endpoint)
    /\ UNCHANGED <<steps, nodes, artifacts, checks, idx, server, op, old, reruns,
                   report, callers, mvars, args>>

PipelineNext == RunMetricPipeline \/ PipelinePost \/ AddNode \/ Return

SpecPipeline == PipelineInit /\ [][PipelineNext]_vars

(***************************************************************************)
(* What the claims speak of                                                *)
(***************************************************************************)
\* the invocation of the capability raises: no connection, or an error status
Raises(answer) ==
    \/ answer.kind = "connect_error"
    \/ answer.kind = "http" /\ answer.code >= 400

Finished == pc \in {"done", "reported"}

\* the steps the current execution is to run, and the nodes it has added
Todo == SliceFrom(steps, op.start)
Kept == IF op.name = "rerun_from" THEN DagRerunFrom(old, op.start).nodes ELSE <<>>
Added == SubSeq(nodes, Len(Kept) + 1, Len(nodes))

\* node is the record of step: name, endpoint, payload, kind and output key
Carries(node, step) ==
    /\ node.name = step.name
    /\ node.endpoint = step.endpoint
    /\ node.payload = step.payload
    /\ node.kind = step.kind
    /\ node.output_key = step.output_key

\* the checks of the nodes of ns, concatenated in node order
RECURSIVE FlattenChecks(_)
FlattenChecks(ns) ==
    IF Len(ns) = 0 THEN <<>>
    ELSE FlattenChecks(SubSeq(ns, 1, Len(ns) - 1)) \o ns[Len(ns)].checks

\* node declares key with non-empty outputs
Declares(node, key) == node.output_key = key /\ DOMAIN node.outputs # {}

\* arts maps each output key to the outputs of the last node of ns that
\* declared it with non-empty outputs, and holds nothing else
ArtifactsOf(ns, arts) ==
    /\ \A i, j \in 1..Len(arts) : arts[i].key = arts[j].key => i = j
    /\ \A i \in 1..Len(arts) :
        /\ arts[i].key # NoKey
        /\ \E n \in 1..Len(ns) :
            /\ Declares(ns[n], arts[i].key)
            /\ arts[i].value = ns[n].outputs
            /\ \A m \in (n + 1)..Len(ns) : ~ Declares(ns[m], arts[i].key)
    /\ \A n \in 1..Len(ns) :
        (ns[n].output_key # NoKey /\ DOMAIN ns[n].outputs # {})
            => \E i \in 1..Len(arts) : arts[i].key = ns[n].output_key

\* the node a fresh execution of step records, the server answering as it does
FreshNode(step) ==
    LET t == TryPost(server[step.endpoint])
        c == Classify(step.kind, t.response)
    IN  RunNode(step, t.status, c.outputs, c.checks)

\* C1: an invocation that raises is recorded as a node with status 'fail' and
\* the later steps are still executed: no exception leaves _execute_steps, a
\* finished execution has recorded exactly one node per step it was to run,
\* and a node's status is 'ok' exactly when its invocation did not raise.
C1_FailureIsRecordedAndRunContinues ==
    /\ pc # "raised"
    /\ Finished => Len(Added) = Len(Todo)
    /\ \A i \in 1..Len(nodes) :
        /\ nodes[i].status \in {"ok", "fail"}
        /\ nodes[i].status = "ok" <=> ~ Raises(server[nodes[i].endpoint])

C1_Witness ==
    /\ pc = "done"
    /\ op.name = "run_plan"
    /\ Len(nodes) = 2
    /\ Raises(server[steps[1].endpoint])
    /\ nodes[1].status = "fail"
    /\ nodes[2].status = "ok"

\* C2: run_plan invokes the capabilities in declared order, one at a time:
\* the endpoints posted to are those of a prefix of the plan, in order; a
\* request is outstanding only while exactly one node is still to be added;
\* node i carries the name, endpoint, payload, kind and output key of step i;
\* and on return there are exactly len(steps) nodes.
C2_RunPlanIsSequentialInOrder ==
    op.name = "run_plan" =>
        /\ Len(calls) <= Len(steps)
        /\ \A i \in 1..Len(calls) : calls[i] = steps[i].endpoint
        /\ Len(calls) = Len(nodes) + (IF pc = "posted" THEN 1 ELSE 0)
        /\ Len(nodes) <= Len(steps)
        /\ \A i \in 1..Len(nodes) : Carries(nodes[i], steps[i])
        /\ Finished => Len(nodes) = Len(steps)

C2_Witness ==
    /\ pc = "posted"
    /\ op.name = "run_plan"
    /\ Len(steps) = 2
    /\ steps[1] # steps[2]
    /\ Len(nodes) = 1
    /\ Len(calls) = 2

\* C3: rerun_from(dag, steps, k) with 0 <= k < len(dag.nodes) keeps the old
\* nodes[0..k) unchanged, drops the rest, empties artifacts and checks, and
\* appends one node per step of steps[k:] as a fresh run would; at every
\* moment of the rerun, artifacts and checks hold exactly what the nodes
\* added since contributed, and nothing of the retained nodes.
C3_RerunTruncatesClearsAndReplays ==
    (op.name = "rerun_from" /\ 0 <= op.start /\ op.start < Len(old.nodes)) =>
        /\ Kept = SubSeq(old.nodes, 1, op.start)
        /\ Len(nodes) >= op.start
        /\ SubSeq(nodes, 1, op.start) = Kept
        /\ Len(Added) <= Len(Todo)
        /\ \A i \in 1..Len(Added) : Added[i] = FreshNode(Todo[i])
        /\ checks = FlattenChecks(Added)
        /\ ArtifactsOf(Added, artifacts)
        /\ Finished => Len(Added) = Len(Todo)

C3_Witness ==
    /\ pc = "done"
    /\ op.name = "rerun_from"
    /\ op.start = 1
    /\ Len(old.nodes) = 2
    /\ Len(old.artifacts) = 1
    /\ Declares(nodes[1], "curvature")
    /\ nodes[1] = old.nodes[1]
    /\ Len(nodes) = 2
    /\ artifacts = <<>>

\* C4 (as claimed): a rerun from any k in range of a DAG that run_plan(steps)
\* produced ends with the artifacts and the checks of that fresh run.
C4_RerunEqualsFreshRun ==
    (/\ pc = "done"
     /\ op.name = "rerun_from"
     /\ reruns = 1
     /\ 0 <= op.start
     /\ op.start < Len(steps))
        => /\ artifacts = old.artifacts
           /\ checks = old.checks

\* C5: after every node added during a fresh run_plan, dag.checks is the
\* concatenation in node order of the nodes' checks, and dag.artifacts maps
\* each output key to the outputs of the last node that declared it with
\* non-empty outputs; a node without an output key contributes no entry.
C5_DerivedStateFollowsNodes ==
    op.name = "run_plan" =>
        /\ checks = FlattenChecks(nodes)
        /\ ArtifactsOf(nodes, artifacts)

C5_Witness ==
    /\ pc = "loop"
    /\ op.name = "run_plan"
    /\ Len(nodes) = 2
    /\ Declares(nodes[1], "curvature")
    /\ Declares(nodes[2], "curvature")
    /\ nodes[1].outputs # nodes[2].outputs
    /\ Len(artifacts) = 1
    /\ artifacts[1].value = nodes[2].outputs

\* C6: the node just added classifies the response by the step's kind: for
\* 'checks' its checks are the response's 'checks' list when the response has
\* that key and else the one-element list of the whole response, and its
\* outputs are empty; for artifact, scalar and invariants its outputs are the
\* response itself and its checks are empty.
C6_ResultClassifiedByKind ==
    (pc = "loop" /\ Len(calls) > 0) =>
        LET node == nodes[Len(nodes)]
        IN  /\ node.kind = "checks" =>
                /\ ("checks" \in DOMAIN response) => node.checks = response.checks
                /\ ("checks" \notin DOMAIN response) => node.checks = <<response>>
                /\ node.outputs = EmptyDict
            /\ node.kind \in {"artifact", "scalar", "invariants"} =>
                /\ node.outputs = response
                /\ node.checks = <<>>

C6_Witness ==
    /\ pc = "loop"
    /\ Len(calls) > 0
    /\ nodes[Len(nodes)].kind = "checks"
    /\ nodes[Len(nodes)].status = "ok"
    /\ "checks" \notin DOMAIN response
    /\ nodes[Len(nodes)].checks = <<response>>

\* a check counts as failed when its 'passed' field is absent or falsy
FailedCheck(c) == ("passed" \notin DOMAIN c) \/ c.passed \in {"false", "null"}

\* C7: build_report returns checks = dag.checks, failed_checks = the checks
\* whose 'passed' is absent or falsy, in order, passed = (failed_checks is
\* empty), and artifacts = the keys of dag.artifacts.
C7_ReportSummarisesDag ==
    report.built =>
        /\ report.checks = checks
        /\ report.failed_checks = SelectSeq(checks, FailedCheck)
        /\ report.passed <=> (report.failed_checks = <<>>)
        /\ report.artifacts = [i \in 1..Len(artifacts) |-> artifacts[i].key]

C7_Witness ==
    /\ report.built
    /\ ~ report.passed
    /\ Len(report.artifacts) = 1
    /\ Len(report.failed_checks) = 2
    /\ report.failed_checks[2] = CheckNull
    /\ Len(report.checks) > Len(report.failed_checks)

\* the request has a non-empty coords list and an N x N matrix, N = len(coords)
ShapeOK(c, g) ==
    /\ Len(c) >= 1
    /\ Len(g) = Len(c)
    /\ \A r \in 1..Len(g) : Len(g[r]) = Len(c)

\* C8: MetricSpec construction rejects an empty coords list, a g_dd whose
\* number of rows differs from len(coords) and a g_dd with a row whose length
\* differs from len(coords), before anything is parsed or computed; every
\* spec that passes has an exactly N x N matrix with N = len(coords) >= 1.
C8_ShapeValidatedBeforeComputation ==
    /\ mpc \in {"request", "valid", "rejected"}
    /\ mpc = "valid" => ShapeOK(coords, g_dd)
    /\ mpc = "rejected" => (~ ShapeOK(coords, g_dd) /\ result.raised)
    /\ called # "none" => (mpc = "valid" /\ ShapeOK(coords, g_dd))

C8_Witness ==
    /\ mpc = "rejected"
    /\ Len(coords) = 2
    /\ Len(g_dd) = 2
    /\ Len(g_dd[1]) = 2
    /\ Len(g_dd[2]) = 1
    /\ result.exc = "g_dd must be a square matrix"

\* C9 (as claimed): a MetricSpec whose coords list repeats a name is rejected,
\* so every metric that reaches parse_metric has N distinct coordinate names
\* and N distinct coordinate symbols.
C9_DuplicateCoordsRejected ==
    /\ mpc = "valid" => \A i, j \in 1..Len(coords) : coords[i] = coords[j] => i = j
    /\ (called = "parse_metric" /\ ~ result.raised) =>
            Cardinality(DOMAIN result.value.coord_map) = Len(coords)

\* the metric has a symbolic-evaluation error: a cell that cannot be parsed,
\* or a singular matrix
SymbolicError(g) ==
    \/ \E r \in 1..Len(g) : \E k \in 1..Len(g[r]) : g[r][k] = "("
    \/ Det([r \in 1..Len(g) |-> [k \in 1..Len(g[r]) |-> IF g[r][k] = "1" THEN 1 ELSE 0]]) = 0

\* C10 (as claimed): each check function, called on a shape-valid MetricSpec
\* with a symbolic-evaluation error, returns a CheckResult with passed=false
\* (check_riemann_symmetries: a list holding one) and lets no exception out.
C10_ChecksCaptureFailuresLocally ==
    (/\ called \in {"check_metric_symmetry", "check_christoffel_symmetry",
                    "check_riemann_symmetries", "check_vacuum",
                    "check_contracted_bianchi"}
     /\ SymbolicError(g_dd))
        => /\ ~ result.raised
           /\ IF called = "check_riemann_symmetries"
              THEN \E i \in 1..Len(result.value) : ~ result.value[i].passed
              ELSE ~ result.value.passed

\* the value of the cell in row i and column j of a parsable matrix
CellValue(g, i, j) == Sympify(g[i][j])

\* C14: metric symmetry is checked, not enforced.  Construction accepts every
\* matrix of the right shape, symmetric or not; check_metric_symmetry, when it
\* returns, has passed=true exactly when g[i][j] - g[j][i] is zero for all
\* i, j, with a null residual, and otherwise passed=false with the
\* serialization of the whole difference matrix as residual.
C14_SymmetryCheckedNotEnforced ==
    /\ (mpc \in {"valid", "rejected"}) => (mpc = "valid" <=> ShapeOK(coords, g_dd))
    /\ (called = "check_metric_symmetry" /\ ~ result.raised) =>
        LET n == Len(g_dd)
            symmetric == \A i \in 1..n : \A j \in 1..n :
                            CellValue(g_dd, i, j) = CellValue(g_dd, j, i)
        IN  /\ result.value.check_name = "metric_symmetry"
            /\ result.value.passed <=> symmetric
            /\ symmetric => result.value.residual = None
            /\ ~ symmetric =>
                  result.value.residual =
                      [sstr |-> [i \in 1..n |-> [j \in 1..n |->
                                  CellValue(g_dd, i, j) - CellValue(g_dd, j, i)]]]

C14_Witness ==
    /\ called = "check_metric_symmetry"
    /\ g_dd = <<<<"1", "1">>, <<"0", "1">>>>
    /\ ~ result.raised
    /\ ~ result.value.passed
    /\ result.value.residual = [sstr |-> <<<<0, 1>>, <<-1, 0>>>>]

\* g is diagonal with a non-zero constant on every diagonal cell
ConstantInvertibleDiagonal(g) ==
    \A i \in 1..Len(g) : \A j \in 1..Len(g[i]) :
        IF i = j THEN g[i][j] \in {"-1", "1", "4"} ELSE g[i][j] = "0"

\* C16: for the Minkowski metric diag(-1,1,1,1), and for every invertible
\* diagonal metric with constant coefficients, every check passes: vacuum in
\* symbolic mode, the three Riemann symmetry checks, contracted_bianchi,
\* metric_symmetry and christoffel_symmetry.
C16_FlatMetricsPassEveryCheck ==
    (/\ called \in {"check_metric_symmetry", "check_christoffel_symmetry",
                    "check_riemann_symmetries", "check_vacuum",
                    "check_contracted_bianchi"}
     /\ ConstantInvertibleDiagonal(g_dd))
        => /\ ~ result.raised
           /\ IF called = "check_riemann_symmetries"
              THEN /\ Len(result.value) = 3
                   /\ \A i \in 1..3 : result.value[i].passed
              ELSE result.value.passed

C16_Witness ==
    /\ coords = <<"t", "x", "y", "z">>
    /\ g_dd = Diag(<<"-1", "1", "1", "1">>)
    /\ called = "check_riemann_symmetries"
    /\ ~ result.raised
    /\ \A i \in 1..3 : result.value[i].passed

\* the three index symmetries of a covariant 4-index tensor
AntisymLast(R) ==
    \A a, b, cc, d \in 1..Len(R) : R[a][b][cc][d] = - R[a][b][d][cc]
AntisymFirst(R) ==
    \A a, b, cc, d \in 1..Len(R) : R[a][b][cc][d] = - R[b][a][cc][d]
PairExchange(R) ==
    \A a, b, cc, d \in 1..Len(R) : R[a][b][cc][d] = R[cc][d][a][b]

\* C15: check_riemann_symmetries returns exactly three results, in the order
\* riemann_antisym_last, riemann_antisym_first, riemann_pair_exchange; each
\* is the verdict of its own sweep over all index tuples and passes exactly
\* when its own expression is zero for every tuple, whatever the verdicts of
\* the other two.
C15_ThreeIndependentRiemannSweeps ==
    (called = "check_riemann_symmetries" /\ DOMAIN args # {}) =>
        LET R == RCov(args)
            out == result.value
        IN  /\ ~ result.raised
            /\ Len(out) = 3
            /\ out[1].check_name = "riemann_antisym_last"
            /\ out[2].check_name = "riemann_antisym_first"
            /\ out[3].check_name = "riemann_pair_exchange"
            /\ out[1].passed <=> AntisymLast(R)
            /\ out[2].passed <=> AntisymFirst(R)
            /\ out[3].passed <=> PairExchange(R)

C15_Witness ==
    /\ called = "check_riemann_symmetries"
    /\ DOMAIN args # {}
    /\ ~ result.value[1].passed
    /\ result.value[2].passed
    /\ ~ result.value[3].passed

\* check_vacuum was called in numeric mode / in symbolic mode
NumericMode ==
    /\ called = "check_vacuum" /\ DOMAIN args # {}
    /\ args.sample_points.given /\ Len(args.sample_points.value) > 0
SymbolicMode ==
    /\ called = "check_vacuum" /\ DOMAIN args # {}
    /\ ~ args.sample_points.given \/ Len(args.sample_points.value) = 0

\* the components of the Einstein tensor of the call, and its sample points
Components == IterateComponents(args.einstein)
Points == args.sample_points.value

\* the expression e is identically zero
ReducesToZero(e) == e.kind = "poly" /\ e.coef = 0

\* the absolute value of the component e at the sample: each symbol of e
\* takes the value the sample gives to its name
RECURSIVE ValueAt(_, _)
ValueAt(names, sample) ==
    IF names = {} THEN 1
    ELSE LET n == CHOOSE x \in names : TRUE
         IN  sample[n] * ValueAt(names \ {n}, sample)
Magnitude(e, sample) ==
    LET v == e.coef * ValueAt({sym.name : sym \in e.syms}, sample)
    IN  IF v < 0 THEN - v ELSE v

\* a numeric-sampling error of the component e at the sample: a symbol of e
\* is given no value, or the value of e is not finite
SamplingError(e, sample) ==
    \/ \E sym \in e.syms : sym.name \notin DOMAIN sample
    \/ e.kind \in {"oo", "nan"}

\* the largest Magnitude over the components and the samples numbered in ks
MaxMagnitude(ks) ==
    LET all == {Magnitude(Components[c], Points[k]) : c \in 1..Len(Components), k \in ks}
    IN  IF all = {} THEN 0 ELSE CHOOSE m \in all : \A o \in all : o <= m

\* C12: check_vacuum in symbolic mode (sample_points absent or empty) has
\* passed=true exactly when every component of the Einstein tensor reduces to
\* zero, with a null residual, and otherwise passed=false with the residual
\* 'G_ab != 0'; a tensor with a non-zero component in the coordinate t (FRW)
\* fails.
C12_SymbolicVacuum ==
    SymbolicMode =>
        LET zero == \A c \in 1..Len(Components) : ReducesToZero(Components[c])
        IN  /\ ~ result.raised
            /\ result.value.check_name = "vacuum"
            /\ result.value.passed <=> zero
            /\ result.value.residual = IF zero THEN None ELSE [text |-> "G_ab != 0"]

C12_Witness ==
    /\ SymbolicMode
    /\ args.sample_points = Given(<<>>)
    /\ args.einstein = DiagTensor(<<Poly(0, {Symbol("t")}), Poly(20, {Symbol("t")})>>)
    /\ ~ result.value.passed
    /\ result.value.residual = [text |-> "G_ab != 0"]

C13_SamplingErrorSkipsTheSample ==
    (/\ NumericMode
     /\ \A c \in 1..Len(Components) : \A sym \in Components[c].syms :
            sym.name \notin DOMAIN CoordMap(args.coords))
        => LET sound == {k \in 1..Len(Points) :
                            \A c \in 1..Len(Components) :
                                ~ SamplingError(Components[c], Points[k])}
           IN  /\ ~ result.raised
               /\ result.value.notes.max_abs = Fin(MaxMagnitude(sound))

\* C19 (as claimed): serializing the components of a tensor and reparsing
\* them yields, componentwise, an expression whose difference against the
\* original simplifies to zero, the reparsed coordinate symbols being the
\* symbols of the parsed metric, with the same assumptions.  Stated for the
\* finite components.
C19_ArtifactRoundTrip ==
    (called = "round_trip" /\ DOMAIN args # {}) =>
        /\ ~ result.raised
        /\ \A i, j \in 1..Len(args.einstein) :
            LET original == args.einstein[i][j]
                reparsed == result.value[i][j]
            IN  original.kind = "poly" =>
                /\ \/ ReducesToZero(original) /\ ReducesToZero(reparsed)
                   \/ original = reparsed
                /\ \A sym \in reparsed.syms :
                      sym.name \in DOMAIN CoordMap(args.coords)
                          => sym = CoordMap(args.coords)[sym.name]

\* the tiers up to the level
TiersUpTo(level) ==
    SubSeq(Tiers, 1, IF level <= 0 THEN 0 ELSE IF level >= Len(Tiers) THEN Len(Tiers) ELSE level)

\* each tier of ts applied in turn to e, a tier in fails leaving the result
\* of the tier before it
RECURSIVE WithFallback(_, _, _)
WithFallback(e, ts, fails) ==
    IF Len(ts) = 0 THEN e
    ELSE LET before == WithFallback(e, SubSeq(ts, 1, Len(ts) - 1), fails)
         IN  IF ts[Len(ts)] \in fails THEN before ELSE Apply(ts[Len(ts)], before)

\* C17 (as claimed): tiered simplification never raises; level <= 0 returns
\* the input unchanged; for the levels 1, 2, 3 each tier up to the level
\* (simplify, together, factor) is attempted, a tier that fails falling back
\* to the result of the tier before it; simplify_tensor does this for every
\* component and returns a tensor of the same shape.
C17_TiersAttemptedWithFallback ==
    (called = "simplify_tensor" /\ DOMAIN args # {}) =>
        /\ ~ result.raised
        /\ Len(result.value) = Len(args.tensor)
        /\ \A i \in 1..Len(args.tensor) :
            /\ args.level <= 0 => result.value[i].value = args.tensor[i]
            /\ result.value[i].attempted = TiersUpTo(args.level)
            /\ result.value[i].value =
                  WithFallback(args.tensor[i], TiersUpTo(args.level), args.fails[i])

\* the arguments of a node
Arguments(e) ==
    IF "r" \in DOMAIN e THEN {e.l, e.r} ELSE IF "l" \in DOMAIN e THEN {e.l} ELSE {}

\* the unit the rules of the unit check assign to the expression e, or
\* "none" when a rule is broken in e: a number is dimensionless, a symbol
\* has its declared unit, the terms of a sum have one dimension, a product
\* has the product of the units, an exponent is numeric, every argument of
\* a function call is dimensionless and so is its result
RECURSIVE UnitByRules(_, _)
UnitByRules(e, units) ==
    LET sub == [a \in Arguments(e) |-> UnitByRules(a, units)]
        broken == \E a \in Arguments(e) : sub[a] = [none |-> TRUE]
    IN  IF e.op = "num" THEN [dim |-> 0]
        ELSE IF e.op = "sym"
        THEN IF e.name \in DOMAIN units THEN [dim |-> units[e.name]] ELSE [none |-> TRUE]
        ELSE IF broken THEN [none |-> TRUE]
        ELSE IF e.op = "add"
        THEN IF sub[e.l].dim = sub[e.r].dim THEN sub[e.l] ELSE [none |-> TRUE]
        ELSE IF e.op = "mul" THEN [dim |-> sub[e.l].dim + sub[e.r].dim]
        ELSE IF e.op = "pow" THEN [dim |-> 2 * sub[e.l].dim]
        ELSE IF e.op = "fn"
        THEN IF \A a \in Arguments(e) : sub[a].dim = 0 THEN [dim |-> 0] ELSE [none |-> TRUE]
        ELSE [none |-> TRUE]

\* e is built of numbers, symbols, sums, products, powers and function calls
RECURSIVE InGrammar(_)
InGrammar(e) ==
    /\ e.op \in {"num", "sym", "add", "mul", "pow", "powsym", "fn"}
    /\ \A a \in Arguments(e) : InGrammar(a)

\* C20 (as claimed): in a non-geometrized unit system check_units assigns
\* units recursively over the expression tree and returns passed=false with
\* a note, never an exception, on an additive dimension mismatch, a
\* non-dimensionless function argument, a non-numeric exponent or any symbol
\* whose unit is undeclared; otherwise it returns passed=true.
C20_UnitCheckFollowsTheRules ==
    (/\ called = "check_units" /\ DOMAIN args # {}
     /\ ~ Geometrized(args.unit_system))
        => /\ ~ result.raised
           /\ result.value.check_name = "unit_check"
           /\ ~ result.value.passed => result.value.notes # "None"
           /\ InGrammar(args.expression) =>
                (result.value.passed <=>
                    UnitByRules(args.expression, args.symbol_units) # [none |-> TRUE])

\* C21: check_units with the unit system 'geometrized' returns passed=true
\* for every expression text and every symbol-unit map, undeclared symbols,
\* dimension mismatches and unparsable text included: the result is the same
\* whatever the expression and the declared units are.
C21_GeometrizedAlwaysPasses ==
    (/\ called = "check_units" /\ DOMAIN args # {}
     /\ args.unit_system = "geometrized")
        => result = Returned([check_name |-> "unit_check", passed |-> TRUE,
                              notes |-> "geometrized units assumed; no dimension check applied"])

C21_Witness ==
    /\ called = "check_units" /\ DOMAIN args # {}
    /\ args.unit_system = "geometrized"
    /\ args.expression = [op |-> "unparsable"]
    /\ args.symbol_units = EmptyDict
    /\ result.value.passed

\* the names that occur in the metric: its coordinates and the names of its cells
NamesOfMetric ==
    {args.coords[i] : i \in 1..Len(args.coords)} \cup args.cell_names

\* the symbols parse_metric has built for a name
SymbolsNamed(n) ==
    {result.value.coord_map[m] : m \in {n} \cap DOMAIN result.value.coord_map}
        \cup {s \in result.value.free : s.name = n}

\* C22: parse_metric builds the symbol of each coordinate with {real: true}
\* overlaid by the caller's flags for that name, the caller's flag winning
\* where both name it, and no override the caller gave for a name of the
\* metric is dropped without an error: the symbol of that name carries it.
C22_OverridesAreKept ==
    (/\ called = "parse_metric_symbols" /\ DOMAIN args # {}
     /\ ~ result.raised)
        => /\ \A n \in DOMAIN result.value.coord_map :
                LET sym == result.value.coord_map[n]
                IN  /\ sym.name = n
                    /\ "real" \in DOMAIN sym
                    /\ (n \notin DOMAIN args.assumptions
                            \/ "real" \notin DOMAIN args.assumptions[n].v)
                        => sym["real"]
           /\ \A n \in DOMAIN args.assumptions \cap NamesOfMetric :
              \A f \in DOMAIN args.assumptions[n].v :
              \A s \in SymbolsNamed(n) :
                    /\ f \in DOMAIN s
                    /\ s[f] = args.assumptions[n].v[f].v

Names(ns) == [i \in 1..Len(ns) |-> ns[i].name]

\* the names of the nodes after rerun_from(dag, steps, k), run alone on a DAG
\* whose nodes have the names ns
NamesAfter(ns, k) ==
    IF k < 0 \/ k >= Len(ns) THEN ns \o SliceFrom(Names(steps), k)
    ELSE SliceTo(ns, k) \o SliceFrom(Names(steps), k)

\* no caller is inside a call, and no caller entered its call while the
\* other was inside one
Quiescent == \A c \in Callers : callers[c].pc \in Outside
Serialized == \A c \in Callers : ~ callers[c].overtook

\* the names the nodes can have when the calls made so far ran one after
\* the other
SerialNames ==
    LET done == {c \in Callers : callers[c].pc = "done"}
    IN  IF done = {} THEN {Names(steps)}
        ELSE IF done = Callers
        THEN {NamesAfter(NamesAfter(Names(steps), callers[p[1]].k), callers[p[2]].k) :
                    p \in {q \in Callers \X Callers : q[1] # q[2]}}
        ELSE {NamesAfter(Names(steps), callers[c].k) : c \in done}

\* the names the nodes can have after two calls run one after the other,
\* whatever their indices
AnySerialNames ==
    {NamesAfter(NamesAfter(Names(steps), a), b) :
            a \in -1..Len(steps), b \in -1..Len(steps)}

\* the nodes are those of a serialized execution, and the artifacts and the
\* checks are those of the nodes from some index on
SerialShape ==
    /\ Names(nodes) \in SerialNames
    /\ \E j \in 0..Len(nodes) :
        /\ checks = FlattenChecks(SliceFrom(nodes, j))
        /\ ArtifactsOf(SliceFrom(nodes, j), artifacts)

\* C24: RunDAG is right under a single owner only.  When the calls of two
\* callers on one RunDAG run one after the other, the DAG they leave is a
\* DAG of a serialized execution: its nodes are in plan order and its
\* artifacts and checks are those of its nodes from some index on.  When
\* the calls interleave, the DAG can be left in a state no serialized
\* execution produces.
C24_SerializedCallersLeaveASerialDag ==
    (Quiescent /\ Serialized) => SerialShape

\* two calls with indices in range have interleaved and returned, and the
\* nodes are more than the plan has steps: a node list no two serialized
\* calls leave, whatever their indices
C24_Witness ==
    /\ \A c \in Callers : callers[c].pc = "done" /\ callers[c].k \in 0..(Len(steps) - 1)
    /\ ~ Serialized
    /\ Len(nodes) > Len(steps)
    /\ Names(nodes) \notin AnySerialNames
    /\ ~ SerialShape

C26_FailedNodeFailsTheReport ==
    (pc = "reported" /\ report.built /\ report.passed)
        => \A i \in 1..Len(nodes) : nodes[i].status = "ok"

\* C27 (as claimed): rerun_from(dag, steps, k) with k out of range (k < 0 or
\* k >= len(dag.nodes)) leaves nodes, artifacts and checks as they were and
\* invokes no capability; and after any rerun_from on a DAG that
\* run_plan(steps) produced, the node list has len(steps) nodes, in plan
\* order.
C27_OutOfRangeRerunIsANoOp ==
    /\ (op.name = "rerun_from" /\ (op.start < 0 \/ op.start >= Len(old.nodes)))
            => /\ nodes = old.nodes
               /\ artifacts = old.artifacts
               /\ checks = old.checks
               /\ calls = <<>>
    /\ (op.name = "rerun_from" /\ pc = "done")
            => /\ Len(nodes) = Len(steps)
               /\ \A i \in 1..Len(nodes) : Carries(nodes[i], steps[i])

\* C28 (as claimed): every entry of dag.artifacts is the output of a node
\* with status 'ok': a step of kind artifact, scalar or invariants that
\* failed contributes no artifact.
C28_ArtifactsComeFromOkNodes ==
    \A i \in 1..Len(artifacts) :
        \E n \in 1..Len(nodes) :
            /\ nodes[n].status = "ok"
            /\ nodes[n].output_key = artifacts[i].key
            /\ nodes[n].outputs = artifacts[i].value

OutputKinds == {"artifact", "scalar", "invariants"}

\* C29: every node has status 'ok' or 'fail'; its checks are non-empty only
\* if its kind is 'checks' and its outputs only if its kind is artifact,
\* scalar or invariants; a step of any other kind still gets its node, with
\* empty outputs and checks, and adding it changes neither dag.artifacts nor
\* dag.checks.
C29_NodesAreWellFormed ==
    /\ [](\A i \in 1..Len(nodes) :
            /\ nodes[i].status \in {"ok", "fail"}
            /\ Len(nodes[i].checks) > 0 => nodes[i].kind = "checks"
            /\ DOMAIN nodes[i].outputs # {} => nodes[i].kind \in OutputKinds
            /\ nodes[i].kind \notin OutputKinds \cup {"checks"}
                    => nodes[i].outputs = EmptyDict /\ nodes[i].checks = <<>>)
    /\ [][(pc = "posted" /\ steps[idx + 1].kind \notin OutputKinds \cup {"checks"})
            => /\ Len(nodes') = Len(nodes) + 1
               /\ Carries(nodes'[Len(nodes')], steps[idx + 1])
               /\ artifacts' = artifacts
               /\ checks' = checks]_vars

\* a step of kind 'probe' that declares the output key 'health' was answered
\* with a non-empty body: its node is there, and no artifact 'health'
C29_Witness ==
    /\ pc = "done"
    /\ \E i \in 1..Len(nodes) :
        /\ nodes[i].kind = "probe"
        /\ nodes[i].status = "ok"
        /\ nodes[i].output_key = "health"
        /\ server[nodes[i].endpoint].kind = "http"
        /\ server[nodes[i].endpoint].body = CheckPass
        /\ nodes[i].outputs = EmptyDict
    /\ \A a \in 1..Len(artifacts) : artifacts[a].key # "health"

\* the names of the steps of the metric pipeline, in order
PipelineNames ==
    << "metric_validate", "christoffel", "riemann", "ricci", "ricci_scalar",
       "einstein", "invariants", "check_metric_symmetry",
       "check_christoffel_symmetry", "check_riemann_symmetries",
       "check_contracted_bianchi", "check_vacuum" >>

VacuumKeys == {"vacuum_sample_points", "vacuum_epsilon"}

\* payload is the metric without the two keys of the vacuum check
IsStripped(payload, metric) ==
    /\ DOMAIN payload = DOMAIN metric \ VacuumKeys
    /\ \A k \in DOMAIN payload : payload[k] = metric[k]

\* C30: run_metric_pipeline builds the same plan of 12 steps for every metric,
\* in the order of PipelineNames; the two keys vacuum_sample_points and
\* vacuum_epsilon are absent from the metric payload of every step; the
\* payload of check_vacuum carries sample_points only when the metric gives a
\* non-empty list and epsilon only when the metric gives a value that is not
\* null; the requests go out in plan order with these payloads.
C30_PipelinePlan ==
    op.name = "run_metric_pipeline" =>
        LET metric == args.metric
            last == steps[Len(steps)].payload
        IN  /\ Names(steps) = PipelineNames
            /\ Len(steps) = Len(DefaultTools)
            /\ \A i \in 1..(Len(steps) - 1) : IsStripped(steps[i].payload, metric)
            /\ IsStripped(last.metric, metric)
            /\ DOMAIN last \subseteq {"metric", "sample_points", "epsilon"}
            /\ HasKey(last, "sample_points") <=>
                    /\ HasKey(metric, "vacuum_sample_points")
                    /\ metric["vacuum_sample_points"].t = "list"
                    /\ Len(metric["vacuum_sample_points"].v) > 0
            /\ HasKey(last, "sample_points") =>
                    last["sample_points"] = metric["vacuum_sample_points"]
            /\ HasKey(last, "epsilon") <=>
                    /\ HasKey(metric, "vacuum_epsilon")
                    /\ metric["vacuum_epsilon"].t # "null"
            /\ HasKey(last, "epsilon") => last["epsilon"] = metric["vacuum_epsilon"]
            /\ Len(calls) <= Len(steps)
            /\ \A i \in 1..Len(calls) : calls[i] = steps[i].endpoint
            /\ \A i \in 1..Len(nodes) : Carries(nodes[i], steps[i])
            /\ pc = "done" => Len(nodes) = Len(steps) /\ Len(calls) = Len(steps)

\* the pipeline has run on a metric with an empty list of sample points and
\* the epsilon 0: the request of check_vacuum carried epsilon and no
\* sample_points, and a signature of the metric went with every request
C30_Witness ==
    /\ op.name = "run_metric_pipeline"
    /\ pc = "done"
    /\ Len(nodes) = Len(PipelineNames)
    /\ HasKey(args.metric, "vacuum_sample_points")
    /\ args.metric["vacuum_sample_points"] = JList(<<>>)
    /\ HasKey(args.metric, "vacuum_epsilon")
    /\ args.metric["vacuum_epsilon"] = JNumber(0)
    /\ HasKey(args.metric, "signature")
    /\ DOMAIN nodes[Len(nodes)].payload = {"metric", "epsilon"}
    /\ DOMAIN nodes[1].payload = {"coords", "signature"}

=============================================================================
